---- MODULE Spec2Model ----
(***************************************************************************)
(* Verification model of kwpsync.                                          *)
(*                                                                         *)
(*  - clone-mssql-to-docker.js : copyTableData (streaming bulk copy with   *)
(*    pause/resume flow control) and run (per-table clone loop).           *)
(*  - realtime-sync.js / queue worker with template cloning : the project  *)
(*    insert workflows and the Supabase queue consumer.                    *)
(***************************************************************************)
EXTENDS Integers, Sequences, FiniteSets, TLC

(***************************************************************************)
(* Bounds of the model.                                                    *)
(***************************************************************************)
MaxRows == 5
MaxBatch == 3
CloneMaxRows == 2
CloneMaxBatch == 2
MaxRuns == 3

NumTables == 2
Tables == 1..NumTables

Range(s) == {s[i] : i \in 1..Len(s)}

\* a nullable value: null is None, a value x is Some(x)
None == <<>>
Some(x) == <<x>>

\* what run() did with one table in the current run
NoDecision == [action |-> "none", existed |-> FALSE, compared |-> FALSE,
               sourceCount |-> None, targetCount |-> None, rowsBefore |-> <<>>]

(***************************************************************************)
(* Column metadata as returned by fetchColumns.                            *)
(***************************************************************************)
Col(n, ty, ident, comp) ==
  [column_name |-> n, data_type |-> ty, is_identity |-> ident, is_computed |-> comp]

ColumnChoices ==
  { << Col("Id", "int", TRUE, FALSE), Col("Name", "nvarchar", FALSE, FALSE) >>,
    << Col("Name", "nvarchar", FALSE, FALSE), Col("Total", "int", FALSE, TRUE),
       Col("Ver", "timestamp", FALSE, FALSE) >>,
    << Col("Ver", "rowversion", FALSE, FALSE) >> }

isRowversion(col) == col.data_type = "timestamp" \/ col.data_type = "rowversion"

\* the filter of line 281 with identity columns dropped as well
insertableOfNoIdentity(cols) ==
  SelectSeq(cols, LAMBDA col : ~col.is_computed /\ ~isRowversion(col) /\ ~col.is_identity)

insertableOf(cols) == SelectSeq(cols, LAMBDA col : ~col.is_computed /\ ~isRowversion(col))

\* createBulkTable: lines 270-277, the column names of the bulk table
createBulkTable(cols) == [i \in 1..Len(cols) |-> cols[i].column_name]

hasIdentityOf(cols) == \E i \in 1..Len(insertableOf(cols)) : insertableOf(cols)[i].is_identity

VARIABLES
  batchSize,        \* CLONE_BATCH_SIZE
  opts,             \* dropTarget, dropExistingTables, compareCounts, truncateExisting, skipData
  source,           \* source database: per table its row count and columns
  target,           \* target database: per table whether it exists and its rows
  rpc,              \* position of run()
  runNo,            \* number of the current clone run
  ti,               \* index of the table run() is working on
  decision,         \* per table, what the current run did with it
  cpc,              \* position of copyTableData
  identityInsert,   \* IDENTITY_INSERT state of the target table being copied
  promise,          \* state of the promise copyTableData awaits
  stream,           \* state of the streaming source request
  paused,           \* request.pause() / request.resume()
  cancelRequested,  \* request.cancel() was called
  sent,             \* number of 'row' events delivered
  bulkTable,        \* rows accumulated in the current bulk table
  pendingFlush,     \* batches chained on pendingFlush whose bulk insert has not started
  inFlight,         \* bulk inserts issued to the target and not yet completed
  doneH,            \* position of the 'done' handler
  bulkLog,          \* history: every bulk insert issued, in order
  flushedLog,       \* history: every bulk insert completed, in order
  failed,           \* history: a flush or the source stream has failed
  stmtLog,          \* history: TRUNCATE / IDENTITY_INSERT statements sent to the target
  strategy,         \* which worker runs: "direct" (realtime-sync.js) or "template" (part_001)
  sysColumns,       \* sys.columns of dbo.Projekt and dbo.adrAdressen
  TEMPLATE_PROJNR,  \* KWP_TEMPLATE_PROJNR
  mssqlDb,          \* the KWP database: dbo.Projekt, dbo.adrAdressen, dbo.adrOrte
  txCount,          \* number of workflow transactions run so far
  lastRun,          \* history: payload, outcome and database before/after the last transaction
  insertedBy,       \* history: payloads whose run returned 'inserted'
  store,            \* the Supabase queue table: per item id its status and attempt_count
  queue,            \* const queue = []
  processing,       \* let processing
  enqueuedIds,      \* const enqueuedIds = new Set()
  hpc,              \* position of handleQueueItem
  item,             \* the row handleQueueItem is working on
  curResult,        \* outcome of its transaction
  notifications,    \* realtime notifications on their way to the worker
  pollResp,         \* results of fetchPendingQueue queries on their way to the worker
  pollCount,        \* number of poll queries issued
  requeueCount,     \* number of times a producer has put an item back to pending
  faultCount,       \* number of transactions whose begin or commit has failed
  poolPromise,      \* const poolPromise = new sql.ConnectionPool(...).connect()
  batch,            \* table subscriber: the batch whose upsert is in flight
  eventCount,       \* table subscriber: number of change events delivered
  written,          \* history: the change events merged into dbo.Projekt
  upsertFailed,     \* history: an upsert of the table subscriber has failed
  call,             \* a function of realtime-sync.js and the arguments it is called with
  ret,              \* the results of the calls made with these arguments, in order
  trx,              \* per concurrent worker, its open transaction and where it stands
  adrAdressenColumnsCache,  \* let adrAdressenColumnsCache
  projektColumnsCache,      \* let projektColumnsCache
  catalogLog        \* history: the table names the catalog was queried for, in order

optVars == <<batchSize, opts>>
dbVars == <<source, target>>
runVars == <<rpc, runNo, ti, decision>>
copyVars == <<cpc, identityInsert, promise, stream, paused, cancelRequested, sent,
              bulkTable, pendingFlush, inFlight, doneH>>
histVars == <<bulkLog, flushedLog, failed, stmtLog>>
cloneVars == <<optVars, dbVars, runVars, copyVars, histVars>>

workflowVars == <<strategy, sysColumns, TEMPLATE_PROJNR, mssqlDb, txCount, lastRun, insertedBy>>
queueVars == <<store, queue, processing, enqueuedIds, hpc, item, curResult, notifications,
               pollResp, pollCount, requeueCount, faultCount>>
subscriberVars == <<batch, eventCount, written, upsertFailed>>
cacheVars == <<adrAdressenColumnsCache, projektColumnsCache, catalogLog>>
auxVars == <<call, ret, trx, cacheVars>>
workerVars == <<workflowVars, queueVars, poolPromise, subscriberVars, auxVars>>

vars == <<cloneVars, workerVars>>

\* getTableColumns has not been called
CacheIdle == adrAdressenColumnsCache = None /\ projektColumnsCache = None /\ catalogLog = <<>>

\* no queue worker is running
WorkerIdle ==
  /\ strategy = "none" /\ sysColumns = <<>> /\ TEMPLATE_PROJNR = <<>> /\ mssqlDb = <<>>
  /\ txCount = 0 /\ lastRun = <<>> /\ insertedBy = {}
  /\ store = <<>> /\ queue = <<>> /\ processing = FALSE /\ enqueuedIds = {}
  /\ hpc = "idle" /\ item = <<>> /\ curResult = <<>> /\ notifications = {}
  /\ pollResp = {} /\ pollCount = 0 /\ requeueCount = 0 /\ faultCount = 0
  /\ poolPromise = "resolved"
  /\ batch = <<>> /\ eventCount = 0 /\ written = {} /\ upsertFailed = FALSE
  /\ call = <<>> /\ ret = <<>> /\ trx = <<>> /\ CacheIdle

N == source[ti].rows
columns == source[ti].columns
insertable == insertableOf(columns)
hasIdentity == hasIdentityOf(columns)
alive == rpc /= "exited"

(***************************************************************************)
(* copyTableData                                                           *)
(***************************************************************************)
CopyIdle ==
  /\ cpc = "idle" /\ identityInsert = FALSE /\ promise = "none" /\ stream = "none"
  /\ paused = FALSE /\ cancelRequested = FALSE /\ sent = 0 /\ bulkTable = <<>>
  /\ pendingFlush = <<>> /\ inFlight = <<>> /\ doneH = "none"

HistIdle == bulkLog = <<>> /\ flushedLog = <<>> /\ failed = FALSE

\* request.pause(): no 'row' event is delivered until request.resume()
requestPauseIgnored(p) == p
requestPause(p) == TRUE

\* bulkTable.rows.length >= batchSize
batchFullOffByOne(rows, size) == Len(rows) > size
batchFull(rows, size) == Len(rows) >= size

\* lines 281-297: filter the columns, switch IDENTITY_INSERT on, open the stream
copyTableData ==
  /\ UNCHANGED workerVars
  /\ alive /\ cpc = "called"
  /\ IF Len(insertable) = 0
       THEN /\ cpc' = "returned"
            /\ UNCHANGED <<identityInsert, promise, stream, stmtLog>>
       ELSE /\ cpc' = "streaming"
            /\ identityInsert' = hasIdentity
            /\ stmtLog' = IF hasIdentity THEN Append(stmtLog, <<"IDENTITY_INSERT ON", ti>>) ELSE stmtLog
            /\ promise' = "pending"
            /\ stream' = "flowing"
  /\ UNCHANGED <<paused, cancelRequested, sent, bulkTable, pendingFlush, inFlight, doneH>>
  /\ UNCHANGED <<optVars, dbVars, runVars, bulkLog, flushedLog, failed>>

RemoveAt(s, i) == SubSeq(s, 1, i - 1) \o SubSeq(s, i + 1, Len(s))

Settle(p, outcome) == IF p = "pending" THEN outcome ELSE p

\* request.on('row'): lines 299-315.  The callback chained on an already
\* settled pendingFlush runs in the same turn, so the bulk insert is issued
\* before any other event is handled; otherwise the batch waits in the chain.
OnRow ==
  /\ UNCHANGED workerVars
  /\ alive /\ stream = "flowing" /\ ~paused /\ ~cancelRequested /\ sent < N
  /\ sent' = sent + 1
  /\ LET rows == Append(bulkTable, sent + 1) IN
       IF batchFull(rows, batchSize)
         THEN /\ paused' = requestPause(paused)
              /\ bulkTable' = <<>>
              /\ IF inFlight = <<>> /\ pendingFlush = <<>>
                   THEN /\ inFlight' = <<[final |-> FALSE, rows |-> rows]>>
                        /\ bulkLog' = Append(bulkLog, rows)
                        /\ UNCHANGED pendingFlush
                   ELSE /\ pendingFlush' = Append(pendingFlush, rows)
                        /\ UNCHANGED <<inFlight, bulkLog>>
         ELSE /\ bulkTable' = rows
              /\ UNCHANGED <<paused, pendingFlush, inFlight, bulkLog>>
  /\ UNCHANGED <<cpc, identityInsert, promise, stream, cancelRequested, doneH>>
  /\ UNCHANGED <<optVars, dbVars, runVars, flushedLog, failed, stmtLog>>

\* the next link of the pendingFlush chain starts once link i has settled (line 308)
ChainNext(i) ==
  IF pendingFlush /= <<>>
    THEN /\ inFlight' = Append(RemoveAt(inFlight, i), [final |-> FALSE, rows |-> Head(pendingFlush)])
         /\ pendingFlush' = Tail(pendingFlush)
         /\ bulkLog' = Append(bulkLog, Head(pendingFlush))
    ELSE /\ inFlight' = RemoveAt(inFlight, i)
         /\ UNCHANGED <<pendingFlush, bulkLog>>

\* the bulk insert completes, then request.resume(): lines 308-309
FlushOk ==
  /\ UNCHANGED workerVars
  /\ alive
  /\ \E i \in 1..Len(inFlight) :
       /\ ~inFlight[i].final
       /\ target' = [target EXCEPT ![ti].rows = @ \o inFlight[i].rows]
       /\ flushedLog' = Append(flushedLog, inFlight[i].rows)
       /\ ChainNext(i)
  /\ paused' = FALSE
  /\ UNCHANGED <<cpc, identityInsert, promise, stream, cancelRequested, sent, bulkTable, doneH>>
  /\ UNCHANGED <<optVars, source, runVars, failed, stmtLog>>

\* the bulk insert fails: request.cancel(); reject(err): lines 310-313
FlushFail ==
  /\ UNCHANGED workerVars
  /\ alive
  /\ \E i \in 1..Len(inFlight) :
       /\ ~inFlight[i].final
       /\ ChainNext(i)
  /\ cancelRequested' = TRUE
  /\ promise' = Settle(promise, "rejected")
  /\ failed' = TRUE
  /\ UNCHANGED <<cpc, identityInsert, stream, paused, sent, bulkTable, doneH>>
  /\ UNCHANGED <<optVars, dbVars, runVars, flushedLog, stmtLog>>

\* the source request fails: 'error' (line 317: reject), then 'done' is emitted last
StreamError ==
  /\ UNCHANGED workerVars
  /\ alive /\ stream = "flowing" /\ ~cancelRequested
  /\ stream' = "ended"
  /\ promise' = Settle(promise, "rejected")
  /\ failed' = TRUE
  /\ doneH' = "awaiting"
  /\ UNCHANGED <<cpc, identityInsert, paused, cancelRequested, sent, bulkTable, pendingFlush, inFlight>>
  /\ UNCHANGED <<optVars, dbVars, runVars, bulkLog, flushedLog, stmtLog>>

\* the cancelled request ends: 'error' (ECANCEL), then 'done'
StreamCancelled ==
  /\ UNCHANGED workerVars
  /\ alive /\ stream = "flowing" /\ cancelRequested
  /\ stream' = "ended"
  /\ promise' = Settle(promise, "rejected")
  /\ doneH' = "awaiting"
  /\ UNCHANGED <<cpc, identityInsert, paused, cancelRequested, sent, bulkTable, pendingFlush, inFlight>>
  /\ UNCHANGED <<optVars, dbVars, runVars, histVars>>

\* the source request completes: 'done' (line 318)
StreamDone ==
  /\ UNCHANGED workerVars
  /\ alive /\ stream = "flowing" /\ ~paused /\ ~cancelRequested /\ sent = N
  /\ stream' = "ended"
  /\ doneH' = "awaiting"
  /\ UNCHANGED <<cpc, identityInsert, promise, paused, cancelRequested, sent, bulkTable, pendingFlush, inFlight>>
  /\ UNCHANGED <<optVars, dbVars, runVars, histVars>>

\* 'done' handler after `await pendingFlush`: lines 320-324
DoneAfterPending ==
  /\ UNCHANGED workerVars
  /\ alive /\ doneH = "awaiting"
  /\ pendingFlush = <<>> /\ inFlight = <<>>
  /\ IF bulkTable /= <<>>
       THEN /\ inFlight' = <<[final |-> TRUE, rows |-> bulkTable]>>
            /\ bulkLog' = Append(bulkLog, bulkTable)
            /\ doneH' = "finalFlush"
            /\ UNCHANGED promise
       ELSE /\ promise' = Settle(promise, "resolved")
            /\ doneH' = "finished"
            /\ UNCHANGED <<inFlight, bulkLog>>
  /\ UNCHANGED <<cpc, identityInsert, stream, paused, cancelRequested, sent, bulkTable, pendingFlush>>
  /\ UNCHANGED <<optVars, dbVars, runVars, flushedLog, failed, stmtLog>>

\* the final bulk insert completes: resolve() (line 324)
FinalFlushOk ==
  /\ UNCHANGED workerVars
  /\ alive /\ doneH = "finalFlush"
  /\ \E i \in 1..Len(inFlight) :
       /\ inFlight[i].final
       /\ target' = [target EXCEPT ![ti].rows = @ \o inFlight[i].rows]
       /\ flushedLog' = Append(flushedLog, inFlight[i].rows)
       /\ inFlight' = RemoveAt(inFlight, i)
  /\ promise' = Settle(promise, "resolved")
  /\ doneH' = "finished"
  /\ UNCHANGED <<cpc, identityInsert, stream, paused, cancelRequested, sent, bulkTable, pendingFlush>>
  /\ UNCHANGED <<optVars, source, runVars, bulkLog, failed, stmtLog>>

\* the final bulk insert fails: reject(err) (line 326)
FinalFlushFail ==
  /\ UNCHANGED workerVars
  /\ alive /\ doneH = "finalFlush"
  /\ \E i \in 1..Len(inFlight) :
       /\ inFlight[i].final
       /\ inFlight' = RemoveAt(inFlight, i)
  /\ promise' = Settle(promise, "rejected")
  /\ failed' = TRUE
  /\ doneH' = "finished"
  /\ UNCHANGED <<cpc, identityInsert, stream, paused, cancelRequested, sent, bulkTable, pendingFlush>>
  /\ UNCHANGED <<optVars, dbVars, runVars, bulkLog, flushedLog, stmtLog>>

\* the awaited promise resolved: lines 333-335
CopyResolved ==
  /\ UNCHANGED workerVars
  /\ alive /\ cpc = "streaming" /\ promise = "resolved"
  /\ cpc' = "returned"
  /\ identityInsert' = FALSE
  /\ stmtLog' = IF hasIdentity THEN Append(stmtLog, <<"IDENTITY_INSERT OFF", ti>>) ELSE stmtLog
  /\ UNCHANGED <<promise, stream, paused, cancelRequested, sent, bulkTable, pendingFlush, inFlight, doneH>>
  /\ UNCHANGED <<optVars, dbVars, runVars, bulkLog, flushedLog, failed>>

\* the awaited promise rejected: copyTableData throws at line 295
CopyRejected ==
  /\ UNCHANGED workerVars
  /\ alive /\ cpc = "streaming" /\ promise = "rejected"
  /\ cpc' = "threw"
  /\ UNCHANGED <<identityInsert, promise, stream, paused, cancelRequested, sent, bulkTable, pendingFlush, inFlight, doneH>>
  /\ UNCHANGED <<optVars, dbVars, runVars, histVars>>

DefaultOpts ==
  [dropTarget |-> TRUE, dropExistingTables |-> FALSE, compareCounts |-> TRUE,
   truncateExisting |-> FALSE, skipData |-> FALSE]

\* one call of copyTableData on an existing, empty target table
InitCopy ==
  /\ batchSize \in 1..MaxBatch
  /\ opts = DefaultOpts
  /\ \E n \in 0..MaxRows, cols \in ColumnChoices :
       source = [t \in Tables |-> IF t = 1 THEN [rows |-> n, columns |-> cols]
                                            ELSE [rows |-> 0, columns |-> cols]]
  /\ target = [t \in Tables |-> [exists |-> t = 1, rows |-> <<>>]]
  /\ rpc = "copy" /\ runNo = 1 /\ ti = 1
  /\ decision = [t \in Tables |-> NoDecision]
  /\ cpc = "called" /\ identityInsert = FALSE /\ promise = "none" /\ stream = "none"
  /\ paused = FALSE /\ cancelRequested = FALSE /\ sent = 0 /\ bulkTable = <<>>
  /\ pendingFlush = <<>> /\ inFlight = <<>> /\ doneH = "none"
  /\ HistIdle /\ stmtLog = <<>>
  /\ WorkerIdle

NextCopy ==
  \/ copyTableData
  \/ OnRow
  \/ FlushOk
  \/ FlushFail
  \/ StreamError
  \/ StreamCancelled
  \/ StreamDone
  \/ DoneAfterPending
  \/ FinalFlushOk
  \/ FinalFlushFail
  \/ CopyResolved
  \/ CopyRejected

SpecCopy == InitCopy /\ [][NextCopy]_vars

(***************************************************************************)
(* run(): the clone loop over the source tables                            *)
(***************************************************************************)
\* getTableRowCount: the row count, or null when the catalog view yields no row
getTableRowCount(database, t) == {None, Some(Len(database[t].rows))}
getSourceRowCount(t) == {None, Some(source[t].rows)}

\* line 377: sourceCount != null && targetCount != null && sourceCount === targetCount
countsMatchNoNullCheck(sourceCount, targetCount) == sourceCount = targetCount
countsMatch(sourceCount, targetCount) ==
  sourceCount /= None /\ targetCount /= None /\ sourceCount = targetCount

ResetCopy ==
  /\ identityInsert' = FALSE /\ promise' = "none" /\ stream' = "none"
  /\ paused' = FALSE /\ cancelRequested' = FALSE /\ sent' = 0 /\ bulkTable' = <<>>
  /\ pendingFlush' = <<>> /\ inFlight' = <<>> /\ doneH' = "none"
  /\ bulkLog' = <<>> /\ flushedLog' = <<>> /\ failed' = FALSE

\* lines 338-351: ensureTargetDb drops and recreates the target database when
\* MSSQL_TARGET_DROP is not '0'; then the table loop starts
RunStart ==
  /\ UNCHANGED workerVars
  /\ rpc \in {"notStarted", "exited", "completed"}
  /\ runNo < MaxRuns
  /\ runNo' = runNo + 1
  /\ target' = IF opts.dropTarget
                 THEN [t \in Tables |-> [exists |-> FALSE, rows |-> <<>>]]
                 ELSE target
  /\ rpc' = "loop" /\ ti' = 1
  /\ decision' = [t \in Tables |-> NoDecision]
  /\ cpc' = "idle" /\ ResetCopy /\ stmtLog' = <<>>
  /\ UNCHANGED <<optVars, source>>

\* lines 353-389: one iteration of the table loop, up to the call of copyTableData
RunTable ==
  /\ UNCHANGED workerVars
  /\ rpc = "loop" /\ ti \in Tables
  /\ LET exists == target[ti].exists
         stillExists == exists /\ ~opts.dropExistingTables
         created == IF stillExists THEN target[ti] ELSE [exists |-> TRUE, rows |-> <<>>]
         dec == [NoDecision EXCEPT !.existed = exists, !.rowsBefore = created.rows]
     IN
     IF opts.skipData
       THEN /\ target' = [target EXCEPT ![ti] = created]
            /\ decision' = [decision EXCEPT ![ti] = [dec EXCEPT !.action = "schemaOnly"]]
            /\ ti' = ti + 1
            /\ UNCHANGED <<rpc, copyVars, histVars>>
       ELSE
         \E sourceCount \in getSourceRowCount(ti), targetCount \in getTableRowCount(target, ti) :
           LET compared == stillExists /\ opts.compareCounts
               dec2 == IF compared
                         THEN [dec EXCEPT !.compared = TRUE, !.sourceCount = sourceCount,
                                          !.targetCount = targetCount]
                         ELSE dec
           IN
           \* without a comparison no count is fetched
           /\ ~compared => (sourceCount = None /\ targetCount = None)
           /\ IF compared /\ countsMatch(sourceCount, targetCount)
                THEN /\ target' = [target EXCEPT ![ti] = created]
                     /\ decision' = [decision EXCEPT ![ti] = [dec2 EXCEPT !.action = "skipped"]]
                     /\ ti' = ti + 1
                     /\ UNCHANGED <<rpc, copyVars, histVars>>
                ELSE /\ target' = [target EXCEPT ![ti] =
                                     IF stillExists /\ opts.truncateExisting
                                       THEN [created EXCEPT !.rows = <<>>] ELSE created]
                     /\ stmtLog' = IF stillExists /\ opts.truncateExisting
                                     THEN Append(stmtLog, <<"TRUNCATE", ti>>) ELSE stmtLog
                     /\ decision' = [decision EXCEPT ![ti] = [dec2 EXCEPT !.action = "copy"]]
                     /\ cpc' = "called" /\ ResetCopy
                     /\ rpc' = "copy"
                     /\ UNCHANGED ti
  /\ UNCHANGED <<optVars, source, runNo>>

\* line 389: copyTableData returned, next table
RunAfterCopy ==
  /\ UNCHANGED workerVars
  /\ rpc = "copy" /\ cpc = "returned"
  /\ rpc' = "loop" /\ ti' = ti + 1
  /\ cpc' = "idle"
  /\ UNCHANGED <<identityInsert, promise, stream, paused, cancelRequested, sent,
                 bulkTable, pendingFlush, inFlight, doneH>>
  /\ UNCHANGED <<optVars, dbVars, runNo, decision, histVars>>

\* lines 399-402: copyTableData threw, run() rejects and the process exits
RunFailed ==
  /\ UNCHANGED workerVars
  /\ rpc = "copy" /\ cpc = "threw"
  /\ rpc' = "exited"
  /\ UNCHANGED <<optVars, dbVars, runNo, ti, decision, copyVars, histVars>>

\* lines 393-396: all tables done
RunFinish ==
  /\ UNCHANGED workerVars
  /\ rpc = "loop" /\ ti = NumTables + 1
  /\ rpc' = "completed"
  /\ UNCHANGED <<optVars, dbVars, runNo, ti, decision, copyVars, histVars>>

OptChoices ==
  [dropTarget : BOOLEAN, dropExistingTables : BOOLEAN, compareCounts : BOOLEAN,
   truncateExisting : BOOLEAN, skipData : BOOLEAN]

CloneColumns(t) ==
  IF t = 1 THEN << Col("Id", "int", TRUE, FALSE), Col("Name", "nvarchar", FALSE, FALSE) >>
           ELSE << Col("Name", "nvarchar", FALSE, FALSE), Col("Total", "int", FALSE, TRUE),
                   Col("Ver", "timestamp", FALSE, FALSE) >>

InitClone ==
  /\ batchSize \in 1..CloneMaxBatch
  /\ opts \in OptChoices
  /\ \E rows \in [Tables -> 0..CloneMaxRows] :
       source = [t \in Tables |-> [rows |-> rows[t], columns |-> CloneColumns(t)]]
  /\ target = [t \in Tables |-> [exists |-> FALSE, rows |-> <<>>]]
  /\ rpc = "notStarted" /\ runNo = 0 /\ ti = 1
  /\ decision = [t \in Tables |-> NoDecision]
  /\ CopyIdle /\ HistIdle /\ stmtLog = <<>>
  /\ WorkerIdle

NextClone ==
  \/ RunStart
  \/ RunTable
  \/ RunAfterCopy
  \/ RunFailed
  \/ RunFinish
  \/ NextCopy

SpecClone == InitClone /\ [][NextClone]_vars

(***************************************************************************)
(* Properties of copyTableData and run()                                   *)
(***************************************************************************)
RECURSIVE SumLen(_)
SumLen(log) == IF log = <<>> THEN 0 ELSE Len(Head(log)) + SumLen(Tail(log))

Min(a, b) == IF a < b THEN a ELSE b

\* the rows 1..n cut into consecutive batches of b rows, the last one possibly shorter
Chunks(n, b) ==
  [k \in 1..((n + b - 1) \div b) |->
     [j \in 1..Min(b, n - (k - 1) * b) |-> (k - 1) * b + j]]

HasFinalInFlight == \E i \in 1..Len(inFlight) : inFlight[i].final
HasBatchInFlight == \E i \in 1..Len(inFlight) : ~inFlight[i].final

\* C3: the rows received from the source stream and not yet part of a completed
\* bulk insert never number more than batchSize.
C3_BatchMemoryBound == sent - SumLen(flushedLog) <= batchSize

\* C3 witness: a second full batch is held while its flush is in flight and the
\* stream, paused, still has rows to deliver.
C3_Witness ==
  /\ paused /\ HasBatchInFlight /\ sent < N
  /\ Len(flushedLog) >= 1
  /\ sent - SumLen(flushedLog) = batchSize

\* C4: a copy that ends without error has issued exactly ceil(N/B) bulk inserts,
\* floor(N/B) full batches then the remainder, every one completed, and the
\* target holds every source row once, in source order.
C4_ExactBatches ==
  (cpc = "returned" /\ ~failed /\ Len(insertable) > 0) =>
     /\ bulkLog = Chunks(N, batchSize)
     /\ flushedLog = bulkLog
     /\ target[ti].rows = [i \in 1..N |-> i]

\* C4 witness: N = 5, B = 2 copied as three batches.
C4_Witness ==
  /\ cpc = "returned" /\ N = 5 /\ batchSize = 2
  /\ Len(flushedLog) = 3 /\ Len(flushedLog[3]) = 1

\* the names of the columns that are neither computed nor a row version
RECURSIVE CopiedColumnNames(_)
CopiedColumnNames(cols) ==
  IF cols = <<>> THEN <<>>
  ELSE (IF Head(cols).is_computed \/ Head(cols).data_type \in {"timestamp", "rowversion"}
          THEN <<>> ELSE <<Head(cols).column_name>>)
       \o CopiedColumnNames(Tail(cols))

\* C34: once copyTableData has opened the stream or issued a bulk insert, the
\* bulk table has exactly the source columns that are neither computed nor of
\* type timestamp or rowversion, identity columns included, in catalog order,
\* and there is at least one such column; for a table without such a column
\* the call returns with no stream opened and no bulk insert issued.
C34_BulkColumns ==
  /\ (stream /= "none" \/ bulkLog /= <<>>) =>
       /\ createBulkTable(insertable) = CopiedColumnNames(columns)
       /\ CopiedColumnNames(columns) /= <<>>
  /\ (CopiedColumnNames(columns) = <<>> /\ cpc /= "called") =>
       (cpc = "returned" /\ stream = "none" /\ bulkLog = <<>> /\ stmtLog = <<>>)

\* C34 witness: a bulk insert was issued for the table with a computed and a
\* timestamp column, and it carries the one remaining column.
C34_Witness ==
  /\ bulkLog /= <<>>
  /\ Len(insertable) < Len(columns)
  /\ createBulkTable(insertable) = <<"Name">>

\* C5: at most one bulk insert is in flight; while a batch waits for or is in
\* its flush the stream is paused; the final partial batch is flushed only when
\* no earlier flush is pending or in flight.
C5_SerialFlushes ==
  /\ Len(inFlight) <= 1
  /\ (HasBatchInFlight \/ pendingFlush /= <<>>) => paused
  /\ HasFinalInFlight => (pendingFlush = <<>> /\ ~HasBatchInFlight)

\* C5 witness: the final partial batch is in flight after an earlier flush completed.
C5_Witness == HasFinalInFlight /\ Len(flushedLog) >= 1 /\ ~failed

\* C6: once a flush or the source stream has failed, no further bulk insert is
\* issued to the target for that table.
C6_NoBulkAfterFailure == [][failed => bulkLog' = bulkLog]_vars

\* C7: when copyTableData has ended, by returning or by throwing,
\* IDENTITY_INSERT is off again for the table.
C7_IdentityInsertSwitchedOff == (cpc \in {"returned", "threw"}) => ~identityInsert

Truncated(t) == \E i \in 1..Len(stmtLog) : stmtLog[i] = <<"TRUNCATE", t>>

\* C8: with data copying on, for a table that existed and was kept and with
\* count comparison enabled: if both fetched counts are known and equal the
\* table is skipped (no truncate, no bulk insert, the loop moved on); if they
\* differ or one is null, copyTableData is called.
C8_SkipOnMatch ==
  \A t \in Tables :
    LET d == decision[t] IN
    (d.action /= "none" /\ d.existed /\ ~opts.dropExistingTables
       /\ opts.compareCounts /\ ~opts.skipData) =>
      /\ d.compared
      /\ d.sourceCount \in {None, Some(source[t].rows)}
      /\ d.targetCount \in {None, Some(Len(d.rowsBefore))}
      /\ IF d.sourceCount /= None /\ d.targetCount /= None /\ d.sourceCount[1] = d.targetCount[1]
           THEN /\ d.action = "skipped"
                /\ ~Truncated(t)
                /\ target[t].rows = d.rowsBefore
                /\ ti > t
           ELSE d.action = "copy"

\* C8 witness: a table left complete by an earlier run is skipped on equal counts,
\* and another one whose target count is unknown is copied.
C8_Witness ==
  /\ runNo >= 2
  /\ decision[1].action = "skipped" /\ decision[1].sourceCount = Some(2)
  /\ decision[2].action = "copy" /\ decision[2].compared /\ decision[2].targetCount = None

ResumeDefaults ==
  ~opts.dropExistingTables /\ ~opts.truncateExisting /\ opts.compareCounts /\ ~opts.skipData

\* C9: after a run that completes without error with the default table options,
\* every source row of every table is in the target at least once.
C9_AtLeastOnce ==
  (rpc = "completed" /\ ResumeDefaults) =>
     \A t \in Tables :
       Len(insertableOf(source[t].columns)) > 0 =>
         \A i \in 1..source[t].rows : i \in Range(target[t].rows)

\* the number of times source row i is in the target table t
Copies(t, i) == Cardinality({k \in 1..Len(target[t].rows) : target[t].rows[k] = i})

\* C38: after a run that completes without error with the default table
\* options, every table that has a column to copy holds each source row
\* exactly once: as many rows as the source and no row twice, whatever an
\* earlier, interrupted run has left in the table.
C38_ExactlyOnce ==
  (rpc = "completed" /\ ResumeDefaults) =>
     \A t \in Tables :
       Len(insertableOf(source[t].columns)) > 0 =>
         /\ Len(target[t].rows) = source[t].rows
         /\ \A i \in 1..source[t].rows : Copies(t, i) = 1

(***************************************************************************)
(* JavaScript values of payloads and rows                                  *)
(***************************************************************************)
Null == [t |-> "null"]
Str(s) == [t |-> "str", v |-> s]
Num(n) == [t |-> "num", v |-> n]
Bool(b) == [t |-> "bool", v |-> b]
Obj(o) == [t |-> "obj", v |-> o]
NaN == [t |-> "nan"]
NowDate == [t |-> "date", v |-> "now"]

IsNull(x) == x.t = "null"
IsObj(x) == x.t = "obj"
\* !x
Falsy(x) ==
  \/ x.t = "null" \/ x.t = "nan"
  \/ (x.t = "str" /\ x.v = "")
  \/ (x.t = "num" /\ x.v = 0)
  \/ (x.t = "bool" /\ ~x.v)
\* a === b for the values of the model
SameValue(a, b) == a.t = b.t /\ (a.t \in {"null", "nan"} \/ a.v = b.v)

EmptyObject == [k \in {} |-> Null]
Has(o, k) == k \in DOMAIN o
Get(o, k) == IF k \in DOMAIN o THEN o[k] ELSE Null
Put(o, k, x) == [j \in DOMAIN o \cup {k} |-> IF j = k THEN x ELSE o[j]]

\* const x = e; F(x)
Bind(e, F(_)) == CHOOSE r \in {F(x) : x \in {e}} : TRUE

(***************************************************************************)
(* Strings                                                                 *)
(***************************************************************************)
CharAt(s, i) == SubSeq(s, i, i)
Digits == <<"0", "1", "2", "3", "4", "5", "6", "7", "8", "9">>
DigitSet == {Digits[d] : d \in 1..10}
IsDigit(c) == c \in DigitSet
DigitMap == [c \in DigitSet |-> (CHOOSE d \in 1..10 : Digits[d] = c) - 1]
DigitValue(c) == DigitMap[c]

RECURSIVE ToDigits(_)
ToDigits(n) == IF n < 10 THEN Digits[n + 1] ELSE ToDigits(n \div 10) \o Digits[(n % 10) + 1]

RECURSIVE ParseDigits(_)
ParseDigits(s) ==
  IF s = "" THEN 0
  ELSE ParseDigits(SubSeq(s, 1, Len(s) - 1)) * 10 + DigitValue(CharAt(s, Len(s)))

AllDigits(s) == s /= "" /\ \A i \in 1..Len(s) : IsDigit(CharAt(s, i))

\* value.match(/(\d+)$/): the longest run of digits at the end, "" when none
RECURSIVE TrailingDigits(_)
TrailingDigits(s) ==
  IF s = "" \/ ~IsDigit(CharAt(s, Len(s))) THEN ""
  ELSE TrailingDigits(SubSeq(s, 1, Len(s) - 1)) \o CharAt(s, Len(s))

StartsWith(s, prefix) == Len(s) >= Len(prefix) /\ SubSeq(s, 1, Len(prefix)) = prefix

\* String(v)
ToStr(x) ==
  CASE x.t = "str" -> x.v
    [] x.t = "num" -> ToDigits(x.v)
    [] x.t = "bool" -> IF x.v THEN "true" ELSE "false"
    [] x.t = "null" -> "null"
    [] x.t = "nan" -> "NaN"
    [] x.t = "date" -> "Date"
    [] OTHER -> "[object Object]"

\* Number(v)
ToNum(x) ==
  CASE x.t = "num" -> x
    [] x.t = "bool" -> Num(IF x.v THEN 1 ELSE 0)
    [] x.t = "str" -> IF x.v = "" THEN Num(0) ELSE IF AllDigits(x.v) THEN Num(ParseDigits(x.v)) ELSE NaN
    [] x.t = "null" -> Num(0)
    [] OTHER -> NaN

Ok(x) == [ok |-> TRUE, val |-> x]
Err(kind, field) == [ok |-> FALSE, err |-> kind, field |-> field]
ErrIn(kind, label, field) == [ok |-> FALSE, err |-> kind, field |-> label \o "." \o field]

\* realtime-sync.js fitString: strict, throws when too long (maxLen 0 = no limit)
fitString(x, maxLen, label) ==
  IF IsNull(x) \/ (x.t = "str" /\ x.v = "") THEN Ok(Null)
  ELSE IF maxLen /= 0 /\ Len(ToStr(x)) > maxLen THEN Err("TooLong", label)
  ELSE Ok(Str(ToStr(x)))

\* realtime-sync.js truncateString, and fitString of the template worker
truncateString(x, maxLen) ==
  IF IsNull(x) \/ (x.t = "str" /\ x.v = "") THEN Null
  ELSE IF maxLen /= 0 THEN Str(SubSeq(ToStr(x), 1, IF Len(ToStr(x)) < maxLen THEN Len(ToStr(x)) ELSE maxLen))
  ELSE Str(ToStr(x))

toNumber(x, label) ==
  IF IsNull(x) \/ (x.t = "str" /\ x.v = "") THEN Ok(Null)
  ELSE IF ToNum(x).t = "nan" THEN Err("NotANumber", label)
  ELSE Ok(ToNum(x))

(***************************************************************************)
(* Address id generation (realtime-sync.js lines 67-136)                   *)
(***************************************************************************)
ADR_NR_MAX == 24
ADR_LEGAL_FORMS == {"GMBH", "MBH", "KG", "UG", "AG", "EK", "GMBHCO", "CO"}

LowerLetters == "abcdefghijklmnopqrstuvwxyz"
UpperLetters == "ABCDEFGHIJKLMNOPQRSTUVWXYZ"
LowerSet == {CharAt(LowerLetters, i) : i \in 1..26}
UpperSet == {CharAt(UpperLetters, i) : i \in 1..26}
IsLower(c) == c \in LowerSet
IsUpper(c) == c \in UpperSet
\* toUpperCase() / toLowerCase() of one letter
UpperMap == [c \in LowerSet |-> CharAt(UpperLetters, CHOOSE i \in 1..26 : CharAt(LowerLetters, i) = c)]
LowerMap == [c \in UpperSet |-> CharAt(LowerLetters, CHOOSE i \in 1..26 : CharAt(UpperLetters, i) = c)]
UpperOf(c) == UpperMap[c]

\* the replace(...) chain and toUpperCase() of normalizeAdrBase, one character at a time
CleanChar(c) ==
  CASE c = "&" -> " UND "
    [] c \in {"Ä", "ä"} -> "AE"
    [] c \in {"Ö", "ö"} -> "OE"
    [] c \in {"Ü", "ü"} -> "UE"
    [] c = "ß" -> "SS"
    [] IsLower(c) -> UpperOf(c)
    [] IsUpper(c) \/ IsDigit(c) -> c
    [] OTHER -> " "

RECURSIVE CleanString(_)
CleanString(s) == IF s = "" THEN "" ELSE CleanChar(CharAt(s, 1)) \o CleanString(SubSeq(s, 2, Len(s)))

\* cleaned.split(/\s+/).filter(Boolean)
RECURSIVE SplitTokens(_, _)
SplitTokens(s, cur) ==
  IF s = "" THEN (IF cur = "" THEN <<>> ELSE <<cur>>)
  ELSE IF CharAt(s, 1) = " "
         THEN (IF cur = "" THEN <<>> ELSE <<cur>>) \o SplitTokens(SubSeq(s, 2, Len(s)), "")
         ELSE SplitTokens(SubSeq(s, 2, Len(s)), cur \o CharAt(s, 1))

RECURSIVE JoinTokens(_)
JoinTokens(tokens) ==
  IF tokens = <<>> THEN ""
  ELSE IF Len(tokens) = 1 THEN tokens[1]
  ELSE tokens[1] \o "_" \o JoinTokens(Tail(tokens))

normalizeAdrBase(x) ==
  LET raw == IF Falsy(x) THEN "" ELSE ToStr(x)
      tokens == SplitTokens(CleanString(raw), "")
      filtered == SelectSeq(tokens, LAMBDA tok : tok \notin ADR_LEGAL_FORMS)
  IN JoinTokens(IF filtered /= <<>> THEN filtered ELSE tokens)

FirstTruthy(a, b, c) == IF ~Falsy(a) THEN a ELSE IF ~Falsy(b) THEN b ELSE IF ~Falsy(c) THEN c ELSE Str("")

\* address.name || address.strasse || address.vorname || ''
buildAdrBase(address) ==
  normalizeAdrBase(FirstTruthy(Get(address, "name"), Get(address, "strasse"), Get(address, "vorname")))

\* the largest numeric suffix among the existing ids that start with the prefix
MaxSuffix(ids, prefix) ==
  LET nums == {ParseDigits(TrailingDigits(ids[i])) :
                 i \in {j \in 1..Len(ids) : StartsWith(ids[j], prefix) /\ TrailingDigits(ids[j]) /= ""}}
  IN IF nums = {} THEN 0
     ELSE LET m == CHOOSE n \in nums : \A k \in nums : k <= n IN IF m > 0 THEN m ELSE 0

AdrIds(db) == [i \in 1..Len(db.adrAdressen) |-> Get(db.adrAdressen[i], "AdrNrGes").v]

\* generateAdrNrGes, lines 119-127: the candidate for a prefix and the next number
Candidate(base, suffix, nextNum) ==
  IF Len(base \o suffix \o nextNum) > ADR_NR_MAX
    THEN truncateString(Str(base), ADR_NR_MAX - Len(suffix) - Len(nextNum)).v \o suffix \o nextNum
    ELSE base \o suffix \o nextNum

\* generateAdrNrGes: lines 102-129
generateAdrNrGes(db, address, typeTag) ==
  Bind(buildAdrBase(address), LAMBDA baseRaw :
    Bind(truncateString(Str(IF baseRaw = "" THEN "ADRESSE" ELSE baseRaw),
                        ADR_NR_MAX - Len("_" \o typeTag) - 4).v, LAMBDA base :
      Candidate(base, "_" \o typeTag, ToDigits(MaxSuffix(AdrIds(db), base \o "_" \o typeTag) + 1))))

\* ensureAdrNrGes: lines 131-136 (returns the address object, id filled in)
ensureAdrNrGes(db, raw, typeTag) ==
  IF Has(raw, "AdrNrGes") \/ Has(raw, "adrNrGes") THEN raw
  ELSE Put(raw, "AdrNrGes", Str(generateAdrNrGes(db, raw, typeTag)))

(***************************************************************************)
(* Catalog metadata and payload mapping (realtime-sync.js lines 199-316)   *)
(***************************************************************************)
Meta(n, ty, len, nullable, ident, comp, def) ==
  [column_name |-> n, data_type |-> ty, max_length |-> len, is_nullable |-> nullable,
   is_identity |-> ident, is_computed |-> comp, default_definition |-> def]

\* sys.columns of dbo.Projekt (nvarchar lengths are in bytes)
ProjektColumns ==
  << Meta("ProjNr", "nvarchar", 60, FALSE, FALSE, FALSE, FALSE),
     Meta("ProjBezeichnung", "nvarchar", -1, TRUE, FALSE, FALSE, FALSE),
     Meta("ProjAdr", "nvarchar", 48, TRUE, FALSE, FALSE, FALSE),
     Meta("RechAdr", "nvarchar", 48, TRUE, FALSE, FALSE, FALSE),
     Meta("BauHrAdr", "nvarchar", 48, TRUE, FALSE, FALSE, FALSE),
     Meta("AbtNr", "float", 8, TRUE, FALSE, FALSE, FALSE),
     Meta("SachBearb", "nvarchar", 80, TRUE, FALSE, FALSE, FALSE),
     Meta("AuftragStatus", "smallint", 2, TRUE, FALSE, FALSE, FALSE),
     Meta("Direktlieferung", "bit", 1, FALSE, FALSE, FALSE, TRUE),
     Meta("ProjAnlage", "smalldatetime", 4, TRUE, FALSE, FALSE, FALSE),
     Meta("AuftragsDatum", "smalldatetime", 4, TRUE, FALSE, FALSE, FALSE),
     Meta("Createdate", "smalldatetime", 4, FALSE, FALSE, FALSE, FALSE),
     Meta("Editdate", "smalldatetime", 4, TRUE, FALSE, FALSE, FALSE),
     Meta("ProjektID", "int", 4, FALSE, TRUE, FALSE, FALSE),
     Meta("Kurzname", "nvarchar", 40, TRUE, FALSE, TRUE, FALSE),
     Meta("RowVer", "timestamp", 8, FALSE, FALSE, FALSE, FALSE),
     Meta("Offline_Sync_Id", "uniqueidentifier", 16, TRUE, FALSE, FALSE, FALSE) >>

\* sys.columns of dbo.adrAdressen; the location reference Ort is nullable or not
AdrColumns(ortNullable) ==
  << Meta("AdrNrGes", "nvarchar", 48, FALSE, FALSE, FALSE, FALSE),
     Meta("Name", "nvarchar", 200, TRUE, FALSE, FALSE, FALSE),
     Meta("Vorname", "nvarchar", 200, TRUE, FALSE, FALSE, FALSE),
     Meta("Strasse", "nvarchar", 160, TRUE, FALSE, FALSE, FALSE),
     Meta("Ort", "int", 4, ortNullable, FALSE, FALSE, FALSE),
     Meta("RechnungsMail", "nvarchar", 1020, TRUE, FALSE, FALSE, FALSE),
     Meta("MahnSperre", "bit", 1, FALSE, FALSE, FALSE, TRUE),
     Meta("MwStPflicht", "bit", 1, FALSE, FALSE, FALSE, TRUE) >>

CatalogChoices ==
  { [projekt |-> ProjektColumns, adrAdressen |-> AdrColumns(n)] : n \in BOOLEAN }

LowerOfChar(c) == IF IsUpper(c) THEN LowerMap[c] ELSE c

\* key.toLowerCase()
RECURSIVE toLowerCase(_)
toLowerCase(s) == IF s = "" THEN "" ELSE LowerOfChar(CharAt(s, 1)) \o toLowerCase(SubSeq(s, 2, Len(s)))

\* byLower.get(lower): the last column with that lower-cased name, "" when none
byLower(cols, lower) ==
  LET hits == {i \in 1..Len(cols) : toLowerCase(cols[i].column_name) = lower}
  IN IF hits = {} THEN "" ELSE cols[CHOOSE i \in hits : \A j \in hits : j <= i].column_name

metaByName(cols, name) == cols[CHOOSE i \in 1..Len(cols) : cols[i].column_name = name]

\* the check without its line 213
isInsertableColumnNoTimestamp(meta) ==
  /\ ~(meta.is_identity \/ meta.is_computed)
  /\ meta.column_name /= "Offline_Sync_Id"

isInsertableColumn(meta) ==
  /\ ~(meta.is_identity \/ meta.is_computed)
  /\ meta.data_type /= "timestamp"
  /\ meta.column_name /= "Offline_Sync_Id"

\* no column is required
getRequiredColumnsNone(cols) == <<>>

getRequiredColumns(cols) ==
  LET ins == SelectSeq(cols, isInsertableColumn)
      req == SelectSeq(ins, LAMBDA col : ~col.is_nullable /\ ~col.default_definition)
  IN [i \in 1..Len(req) |-> req[i].column_name]

normalizeValueForColumn(x, meta) ==
  LET type == toLowerCase(meta.data_type) IN
  IF IsNull(x) THEN Ok(Null)
  ELSE IF type \in {"nvarchar", "varchar", "nchar", "char"}
    THEN LET maxLen == IF meta.max_length = -1 THEN 0
                       ELSE IF CharAt(type, 1) = "n" THEN meta.max_length \div 2
                       ELSE meta.max_length
         IN fitString(x, maxLen, meta.column_name)
  ELSE IF type \in {"int", "smallint", "tinyint", "bigint", "float", "real", "decimal", "money"}
    THEN toNumber(x, meta.column_name)
  ELSE IF type = "bit"
    THEN IF x.t = "bool" THEN Ok(Num(IF x.v THEN 1 ELSE 0))
         ELSE LET n == toNumber(x, meta.column_name)
              IN IF ~n.ok THEN n ELSE Ok(Num(IF Falsy(n.val) THEN 0 ELSE 1))
  ELSE Ok(x)

\* Object.entries order of the keys used by the model
KeyOrder ==
  << "projnr", "ProjNr", "projbezeichnung", "abtnr", "sachbearb", "auftragStatus",
     "ProjAdr", "RechAdr", "BauHrAdr", "Createdate", "ProjektID", "rowver", "foo",
     "projekt", "adresse", "rechnungAdresse", "bauherrAdresse",
     "sameAsAdresse", "adrNrGes", "name", "vorname", "strasse",
     "plz", "ort", "land", "plzn", "ortTyp", "ortId", "Ort", "rechnungsmail", "kontakte",
     "AdrNrGes", "kurzname", "offline_sync_id" >>

KeysOf(o) == SelectSeq(KeyOrder, LAMBDA k : k \in DOMAIN o)

\* one pass of the loop of mapPayloadToColumns over a key that is not allowed through
MapEntry(key, value, cols, label, data) ==
  Bind(byLower(cols, toLowerCase(key)), LAMBDA columnName :
    IF columnName = "" THEN ErrIn("UnknownField", label, key)
    ELSE IF ~isInsertableColumn(metaByName(cols, columnName))
      THEN ErrIn("NotWritable", label, columnName)
    ELSE Bind(normalizeValueForColumn(value, metaByName(cols, columnName)), LAMBDA r :
           IF ~r.ok THEN r ELSE Ok(Put(data, columnName, r.val))))

RECURSIVE MapEntries(_, _, _, _, _, _)
MapEntries(keys, raw, cols, allowKeys, label, data) ==
  IF keys = <<>> THEN Ok(data)
  ELSE IF Head(keys) \in allowKeys THEN MapEntries(Tail(keys), raw, cols, allowKeys, label, data)
  ELSE Bind(MapEntry(Head(keys), raw[Head(keys)], cols, label, data), LAMBDA e :
         IF ~e.ok THEN e ELSE MapEntries(Tail(keys), raw, cols, allowKeys, label, e.val))

\* mapPayloadToColumns: lines 284-301
mapPayloadToColumns(raw, cols, allowKeys, label) ==
  MapEntries(KeysOf(raw), raw, cols, allowKeys, label, EmptyObject)

ProjectReserved == {"adresse", "rechnungAdresse", "bauherrAdresse", "projekt"}

\* splitProjectPayload without its lines 278-280
splitProjectPayloadNoCheck(payload) ==
  IF IsObj(Get(payload, "projekt")) THEN Ok(payload["projekt"].v)
  ELSE Ok([k \in DOMAIN payload \ ProjectReserved |-> payload[k]])

\* splitProjectPayload: lines 271-282
splitProjectPayload(payload) ==
  LET rootProject == [k \in DOMAIN payload \ ProjectReserved |-> payload[k]]
  IN IF ~Falsy(Get(payload, "projekt")) /\ DOMAIN rootProject /= {}
       THEN Err("AmbiguousPayload", "projekt")
       ELSE IF IsObj(Get(payload, "projekt")) THEN Ok(payload["projekt"].v) ELSE Ok(rootProject)

AddressExtraKeys == {"sameAsAdresse", "plz", "ort", "land", "plzn", "ortTyp", "ortId"}

\* extractAddressExtras: lines 303-316
extractAddressExtras(raw) ==
  LET plz == fitString(Get(raw, "plz"), 16, "plz")
      ort == fitString(Get(raw, "ort"), 80, "ort")
      land == fitString(Get(raw, "land"), 3, "land")
      plzn == fitString(Get(raw, "plzn"), 16, "plzn")
      ortTyp == toNumber(Get(raw, "ortTyp"), "ortTyp")
      ortId == toNumber(Get(raw, "ortId"), "ortId")
  IN IF ~plz.ok THEN plz ELSE IF ~ort.ok THEN ort ELSE IF ~land.ok THEN land
     ELSE IF ~plzn.ok THEN plzn ELSE IF ~ortTyp.ok THEN ortTyp ELSE IF ~ortId.ok THEN ortId
     ELSE Ok([plz |-> plz.val, ort |-> ort.val, land |-> land.val, plzn |-> plzn.val,
              ortTyp |-> ortTyp.val, ortId |-> ortId.val])

(***************************************************************************)
(* Direct insert workflow (realtime-sync.js lines 138-167, 318-478)        *)
(* A database is [projekt, adrAdressen, adrOrte]: sequences of rows, a row *)
(* being a function from column names to values.  log is the sequence of   *)
(* statements the running transaction has issued through ensureAdresse,    *)
(* ensureOrt and the Project check and insert, with one entry for every    *)
(* call of ensureAdresse; a committed database carries an empty log.       *)
(***************************************************************************)
Stmt(db, s) == [db EXCEPT !.log = Append(@, s)]

MaxOf(S) == IF S = {} THEN 0 ELSE CHOOSE n \in S : \A k \in S : k <= n
MinOf(S) == CHOOSE n \in S : \A k \in S : n <= k

OrtHits(db, plz, ort) ==
  {i \in 1..Len(db.adrOrte) : SameValue(db.adrOrte[i]["PLZ"], plz) /\ SameValue(db.adrOrte[i]["Ort"], ort)}

\* SELECT ISNULL(MAX(OrtID), 0) without the + 1
NextOrtIdNoIncrement(db) == MaxOf({db.adrOrte[i]["OrtID"].v : i \in 1..Len(db.adrOrte)})

\* SELECT ISNULL(MAX(OrtID), 0) + 1 AS NextId FROM dbo.adrOrte
NextOrtId(db) == MaxOf({db.adrOrte[i]["OrtID"].v : i \in 1..Len(db.adrOrte)}) + 1

OrtRow(id, land, plz, plzn, ort, ortTyp) ==
  [k \in {"OrtID", "Land", "PLZ", "PLZN", "Ort", "OrtTyp"} |->
     CASE k = "OrtID" -> Num(id) [] k = "Land" -> land [] k = "PLZ" -> plz
       [] k = "PLZN" -> plzn [] k = "Ort" -> ort [] OTHER -> ortTyp]

\* ensureOrt: lines 138-167
ensureOrt(db, address) ==
  IF Falsy(address.plz) \/ Falsy(address.ort) THEN Err("OrtIncomplete", "plz")
  ELSE LET hits == OrtHits(db, address.plz, address.ort)
           plzn == IF Falsy(address.plzn) THEN address.plz ELSE address.plzn
           ortTyp == IF address.ortTyp.t = "num" THEN address.ortTyp ELSE Num(0)
           land == IF Falsy(address.land) THEN Str("DE") ELSE address.land
           nextId == NextOrtId(db)
       IN IF hits /= {}
            THEN [ok |-> TRUE, db |-> Stmt(db, "selectOrt"), ortId |-> db.adrOrte[MinOf(hits)]["OrtID"]]
            ELSE [ok |-> TRUE,
                  db |-> [db EXCEPT !.adrOrte =
                            Append(@, OrtRow(nextId, land, address.plz, plzn, address.ort, ortTyp)),
                          !.log = @ \o <<"selectOrt", "selectMaxOrtID", "insertOrt">>],
                  ortId |-> Num(nextId)]

\* the lookup of the address id finding nothing
AdrExistsNever(db, id) == FALSE

\* SELECT AdrNrGes FROM dbo.adrAdressen WHERE AdrNrGes = @AdrNrGes
AdrExists(db, id) == \E i \in 1..Len(db.adrAdressen) : SameValue(Get(db.adrAdressen[i], "AdrNrGes"), id)

FirstMissing(data, cols) ==
  LET miss == {i \in 1..Len(cols) : IsNull(Get(data, cols[i]))}
  IN IF miss = {} THEN "" ELSE cols[MinOf(miss)]

\* ensureAdresse, lines 327-380: the address is mapped, look it up or insert it
insertAdresse(db, adrMeta, data, extras, baseLabel) ==
  LET id == Get(data, "AdrNrGes")
      ortId0 == IF IsNull(Get(data, "Ort")) THEN extras.ortId ELSE Get(data, "Ort")
  IN IF Falsy(id) THEN ErrIn("Missing", baseLabel, "AdrNrGes")
     ELSE IF Len(ToStr(id)) > ADR_NR_MAX THEN ErrIn("TooLong", baseLabel, "AdrNrGes")
     ELSE IF AdrExists(db, id) THEN [ok |-> TRUE, db |-> Stmt(db, "selectAdr"), adrNrGes |-> id]
     ELSE IF FirstMissing(data, getRequiredColumns(adrMeta)) /= ""
       THEN ErrIn("Missing", baseLabel, FirstMissing(data, getRequiredColumns(adrMeta)))
     ELSE IF Falsy(Get(data, "Name")) THEN ErrIn("Missing", baseLabel, "Name")
     ELSE IF Falsy(Get(data, "Strasse")) THEN ErrIn("Missing", baseLabel, "Strasse")
     ELSE IF IsNull(ortId0) /\ (Falsy(extras.plz) \/ Falsy(extras.ort))
       THEN ErrIn("Missing", baseLabel, "plz")
     ELSE Bind(IF IsNull(ortId0)
                 THEN ensureOrt(Stmt(db, "selectAdr"),
                                [plz |-> extras.plz, ort |-> extras.ort, land |-> extras.land,
                                 plzn |-> extras.plzn, ortTyp |-> extras.ortTyp])
                 ELSE [ok |-> TRUE, db |-> Stmt(db, "selectAdr"), ortId |-> ortId0],
               LAMBDA ortRes :
                 IF ~ortRes.ok THEN ortRes
                 ELSE [ok |-> TRUE,
                       db |-> [ortRes.db EXCEPT !.adrAdressen =
                                 Append(@, IF IsNull(Get(data, "Ort"))
                                             THEN Put(data, "Ort", ortRes.ortId) ELSE data),
                                                !.log = Append(@, "insertAdr")],
                       adrNrGes |-> id])

\* ensureAdresse: lines 318-381
ensureAdresse(db, adrMeta, rawV, baseLabel) ==
  IF Falsy(rawV) \/ ~IsObj(rawV) THEN Err("Missing", baseLabel)
  ELSE Bind(extractAddressExtras(rawV.v), LAMBDA extras :
         IF ~extras.ok THEN extras
         ELSE Bind(mapPayloadToColumns(rawV.v, adrMeta, AddressExtraKeys, baseLabel), LAMBDA mapped :
                IF ~mapped.ok THEN mapped
                ELSE insertAdresse(db, adrMeta, mapped.val, extras.val, baseLabel)))

ProjektExists(db, projnr) ==
  \E i \in 1..Len(db.projekt) : SameValue(db.projekt[i]["ProjNr"], projnr)

\* the run found the project: nothing inserted into dbo.Projekt
existsCheck(db, projnr) == ProjektExists(db, projnr)

FillDate(data, col) == IF Has(data, col) THEN data ELSE Put(data, col, NowDate)

Thrown(e, db) == [status |-> "error", err |-> e.err, field |-> e.field, db |-> db]

\* the resolved key written over whatever the payload supplied
MismatchOverwritten(projectData, col, id) == FALSE

\* lines 426-434: projectData.ProjAdr && projectData.ProjAdr !== projAdr
Mismatch(projectData, col, id) ==
  ~Falsy(Get(projectData, col)) /\ ~SameValue(Get(projectData, col), id)

\* insertProjektDirect, lines 422-477: the addresses are resolved
insertProjekt(db, catalog, projectData, projAdr, rechAdr, bauAdr) ==
  LET withAdr == Put(Put(Put(projectData, "ProjAdr", projAdr), "RechAdr", rechAdr), "BauHrAdr", bauAdr)
      record == FillDate(FillDate(FillDate(FillDate(withAdr, "Createdate"), "Editdate"), "ProjAnlage"),
                         "AuftragsDatum")
  IN IF Mismatch(projectData, "ProjAdr", projAdr) THEN Thrown(Err("Mismatch", "ProjAdr"), db)
     ELSE IF Mismatch(projectData, "RechAdr", rechAdr) THEN Thrown(Err("Mismatch", "RechAdr"), db)
     ELSE IF Mismatch(projectData, "BauHrAdr", bauAdr) THEN Thrown(Err("Mismatch", "BauHrAdr"), db)
     ELSE IF FirstMissing(record, getRequiredColumns(catalog.projekt)) /= ""
       THEN Thrown(ErrIn("Missing", "projekt", FirstMissing(record, getRequiredColumns(catalog.projekt))), db)
     ELSE IF existsCheck(db, Get(projectData, "ProjNr"))
       THEN [status |-> "exists", projnr |-> Get(projectData, "ProjNr"), db |-> Stmt(db, "selectProjekt")]
     ELSE [status |-> "inserted", projnr |-> Get(projectData, "ProjNr"),
           db |-> [db EXCEPT !.projekt = Append(@, record),
                             !.log = @ \o <<"selectProjekt", "insertProjekt">>]]

\* insertProjektDirect, lines 391-420: the project fields are mapped
resolveAddresses(db, catalog, payload, projectData) ==
  LET baseRaw0 == Get(payload, "adresse")
      rech0 == Get(payload, "rechnungAdresse")
      bau0 == Get(payload, "bauherrAdresse")
      hasRechnung == ~Falsy(rech0) /\ IsObj(rech0)
      hasBauherr == ~Falsy(bau0) /\ IsObj(bau0)
      rechnungSame == IF ~hasRechnung THEN TRUE ELSE SameValue(Get(rech0.v, "sameAsAdresse"), Bool(TRUE))
      bauherrSame == IF ~hasBauherr THEN TRUE ELSE SameValue(Get(bau0.v, "sameAsAdresse"), Bool(TRUE))
  IN IF Falsy(Get(projectData, "ProjNr")) THEN Thrown(Err("Missing", "projnr"), db)
     ELSE IF Falsy(baseRaw0) \/ ~IsObj(baseRaw0) THEN Thrown(Err("Missing", "adresse"), db)
     ELSE
       Bind(Obj(ensureAdrNrGes(db, baseRaw0.v, "PROJADR")), LAMBDA baseRaw :
       Bind(IF rechnungSame THEN baseRaw ELSE Obj(ensureAdrNrGes(db, rech0.v, "RECHADR")), LAMBDA rechRaw :
       Bind(IF bauherrSame THEN baseRaw ELSE Obj(ensureAdrNrGes(db, bau0.v, "BAUHRADR")), LAMBDA bauRaw :
       Bind(ensureAdresse(Stmt(db, "ensureAdresse:adresse"), catalog.adrAdressen, baseRaw, "adresse"),
            LAMBDA projAdr :
         IF ~projAdr.ok THEN Thrown(projAdr, db) ELSE
       Bind(ensureAdresse(Stmt(projAdr.db, "ensureAdresse:rechnungAdresse"), catalog.adrAdressen, rechRaw,
                          "rechnungAdresse"), LAMBDA rechAdr :
         IF ~rechAdr.ok THEN Thrown(rechAdr, projAdr.db) ELSE
       Bind(ensureAdresse(Stmt(rechAdr.db, "ensureAdresse:bauherrAdresse"), catalog.adrAdressen, bauRaw,
                          "bauherrAdresse"), LAMBDA bauAdr :
         IF ~bauAdr.ok THEN Thrown(bauAdr, rechAdr.db) ELSE
         insertProjekt(bauAdr.db, catalog, projectData,
                       projAdr.adrNrGes, rechAdr.adrNrGes, bauAdr.adrNrGes)))))))

\* insertProjektDirect: lines 383-478.  The result carries the database as the
\* transaction leaves it at the moment the function returns or throws.
insertProjektDirect(db, catalog, payloadV) ==
  Bind(IF IsObj(payloadV) THEN payloadV.v ELSE EmptyObject, LAMBDA payload :
    Bind(splitProjectPayload(payload), LAMBDA projectRaw :
      IF ~projectRaw.ok THEN Thrown(projectRaw, db)
      ELSE Bind(mapPayloadToColumns(projectRaw.val, catalog.projekt, {}, "projekt"), LAMBDA mapped :
             IF ~mapped.ok THEN Thrown(mapped, db)
             ELSE resolveAddresses(db, catalog, payload, mapped.val))))

(***************************************************************************)
(* Clone-from-template workflow (unnamed/part_001 lines 27-228)            *)
(***************************************************************************)
\* fitString of the template worker: truncates, never throws
fitStringTemplate(x, maxLen) == truncateString(x, maxLen)

toFloat(x) ==
  IF IsNull(x) \/ (x.t = "str" /\ x.v = "") THEN Null
  ELSE IF ToNum(x).t = "nan" THEN Null ELSE ToNum(x)

\* x.replace(/\s+/g, '')
RECURSIVE StripSpaces(_)
StripSpaces(s) ==
  IF s = "" THEN ""
  ELSE (IF CharAt(s, 1) = " " THEN "" ELSE CharAt(s, 1)) \o StripSpaces(SubSeq(s, 2, Len(s)))

Or(a, b) == IF Falsy(a) THEN b ELSE a

buildAdrKey(base, suffix) ==
  LET clean == StripSpaces(ToStr(Or(base, Str(""))))
      suffixPart == IF suffix /= "" THEN "_" \o suffix ELSE ""
      maxBaseLen == 24 - Len(suffixPart)
  IN Str(ToStr(fitStringTemplate(Str(clean), maxBaseLen)) \o suffixPart)

normalizeAddress(rawV, fallbackKey) ==
  IF Falsy(rawV) \/ ~IsObj(rawV) THEN Null
  ELSE Obj([adrNrGes |-> fitStringTemplate(Or(Get(rawV.v, "adrNrGes"), fallbackKey), 24),
            name |-> fitStringTemplate(Get(rawV.v, "name"), 100),
            vorname |-> fitStringTemplate(Get(rawV.v, "vorname"), 100),
            strasse |-> fitStringTemplate(Get(rawV.v, "strasse"), 80),
            plz |-> fitStringTemplate(Get(rawV.v, "plz"), 16),
            ort |-> fitStringTemplate(Get(rawV.v, "ort"), 80),
            rechnungsmail |-> fitStringTemplate(Get(rawV.v, "rechnungsmail"), 510),
            land |-> fitStringTemplate(Or(Get(rawV.v, "land"), Str("DE")), 3)])

\* ensureOrt of the template worker: lines 74-101
ensureOrtTemplate(db, address) ==
  IF Falsy(address.plz) \/ Falsy(address.ort) THEN Err("OrtIncomplete", "plz")
  ELSE LET hits == OrtHits(db, address.plz, address.ort)
           nextId == NextOrtId(db)
       IN IF hits /= {}
            THEN [ok |-> TRUE, db |-> Stmt(db, "selectOrt"), ortId |-> db.adrOrte[MinOf(hits)]["OrtID"]]
            ELSE [ok |-> TRUE,
                  db |-> [db EXCEPT !.adrOrte =
                            Append(@, OrtRow(nextId, Or(address.land, Str("DE")), address.plz,
                                             address.plz, address.ort, Num(0))),
                          !.log = @ \o <<"selectOrt", "selectMaxOrtID", "insertOrt">>],
                  ortId |-> Num(nextId)]

AdrRowTemplate(address, ortId) ==
  [k \in {"AdrNrGes", "Name", "Vorname", "Strasse", "Ort", "RechnungsMail", "MahnSperre", "MwStPflicht"} |->
     CASE k = "AdrNrGes" -> address.adrNrGes [] k = "Name" -> address.name
       [] k = "Vorname" -> address.vorname [] k = "Strasse" -> address.strasse
       [] k = "Ort" -> ortId [] k = "RechnungsMail" -> address.rechnungsmail
       [] k = "MahnSperre" -> Num(0) [] OTHER -> Num(1)]

\* ensureAdresse of the template worker with the Location statements issued
\* after the Address statements
ensureAdresseTemplateOrtLast(db, addressV) ==
  IF ~IsObj(addressV) THEN Err("Missing", "AdrNrGes")
  ELSE IF Falsy(addressV.v.adrNrGes) THEN Err("Missing", "AdrNrGes")
  ELSE Bind(ensureOrtTemplate([db EXCEPT !.log = <<>>], addressV.v), LAMBDA ortRes :
         IF ~ortRes.ok THEN ortRes
         ELSE IF AdrExists(ortRes.db, addressV.v.adrNrGes)
           THEN [ok |-> TRUE, db |-> [ortRes.db EXCEPT !.log = db.log \o <<"selectAdr">> \o @],
                 adrNrGes |-> addressV.v.adrNrGes]
         ELSE [ok |-> TRUE,
               db |-> [ortRes.db EXCEPT !.adrAdressen = Append(@, AdrRowTemplate(addressV.v, ortRes.ortId)),
                                        !.log = db.log \o <<"selectAdr", "insertAdr">> \o @],
               adrNrGes |-> addressV.v.adrNrGes])

\* ensureAdresse of the template worker: lines 103-127
ensureAdresseTemplate(db, addressV) ==
  IF ~IsObj(addressV) THEN Err("Missing", "AdrNrGes")
  ELSE IF Falsy(addressV.v.adrNrGes) THEN Err("Missing", "AdrNrGes")
  ELSE Bind(ensureOrtTemplate(db, addressV.v), LAMBDA ortRes :
         IF ~ortRes.ok THEN ortRes
         ELSE IF AdrExists(ortRes.db, addressV.v.adrNrGes)
           THEN [ok |-> TRUE, db |-> Stmt(ortRes.db, "selectAdr"), adrNrGes |-> addressV.v.adrNrGes]
         ELSE [ok |-> TRUE,
               db |-> [ortRes.db EXCEPT !.adrAdressen = Append(@, AdrRowTemplate(addressV.v, ortRes.ortId)),
                                        !.log = @ \o <<"selectAdr", "insertAdr">>],
               adrNrGes |-> addressV.v.adrNrGes])

DateRank(d) == IF d.t = "date" /\ d.v = "now" THEN 1 ELSE 0

\* the rows SELECT TOP 1 ... FROM dbo.Projekt may return (templateProjNr: TEMPLATE_PROJNR)
TemplateCandidates(db, templateProjNr) ==
  IF ~IsNull(templateProjNr)
    THEN {i \in 1..Len(db.projekt) : SameValue(db.projekt[i]["ProjNr"], templateProjNr)}
    ELSE {i \in 1..Len(db.projekt) :
            \A j \in 1..Len(db.projekt) :
              DateRank(Get(db.projekt[j], "Createdate")) <= DateRank(Get(db.projekt[i], "Createdate"))}

Coalesce(a, b) == IF IsNull(a) THEN b ELSE a

\* the columns of the INSERT ... SELECT TOP 1 that the model keeps
TemplateInsertColumns ==
  {"ProjNr", "ProjBezeichnung", "ProjAdr", "RechAdr", "BauHrAdr", "AbtNr", "SachBearb",
   "AuftragStatus", "Direktlieferung", "ProjAnlage", "AuftragsDatum", "Createdate", "Editdate"}

\* insertProjektFromTemplate, lines 160-227: the row copied from the template row
TemplateRow(tmpl, payload, projnr, projAdr, rechAdr, bauAdr, auftragStatus) ==
  [k \in TemplateInsertColumns |->
     CASE k = "ProjNr" -> projnr
       [] k = "ProjBezeichnung" -> Get(payload, "projbezeichnung")
       [] k = "ProjAdr" -> projAdr
       [] k = "RechAdr" -> rechAdr
       [] k = "BauHrAdr" -> bauAdr
       [] k = "AbtNr" -> Coalesce(toFloat(Get(payload, "abtnr")), Get(tmpl, k))
       [] k = "SachBearb" -> Coalesce(fitStringTemplate(Get(payload, "sachbearb"), 40), Get(tmpl, k))
       [] k = "AuftragStatus" -> Coalesce(auftragStatus, Get(tmpl, k))
       [] k \in {"ProjAnlage", "Createdate", "Editdate"} -> NowDate
       [] OTHER -> Get(tmpl, k)]

\* insertProjektFromTemplate, lines 149-227: the addresses are normalized
cloneFromTemplate(db, payload, projnr, baseAddress, rechnungAddress, bauherrAddress, pick) ==
  LET auftragStatus == IF IsNull(Get(payload, "auftragStatus")) THEN Null
                       ELSE ToNum(Get(payload, "auftragStatus"))
  IN IF existsCheck(db, projnr) THEN [status |-> "exists", projnr |-> projnr, db |-> Stmt(db, "selectProjekt")]
     ELSE
       Bind(ensureAdresseTemplate(Stmt(Stmt(db, "selectProjekt"), "ensureAdresse:adresse"), baseAddress),
            LAMBDA projAdr :
         IF ~projAdr.ok THEN Thrown(projAdr, db) ELSE
       Bind(ensureAdresseTemplate(Stmt(projAdr.db, "ensureAdresse:rechnungAdresse"),
                                  Or(rechnungAddress, baseAddress)), LAMBDA rechAdr :
         IF ~rechAdr.ok THEN Thrown(rechAdr, projAdr.db) ELSE
       Bind(ensureAdresseTemplate(Stmt(rechAdr.db, "ensureAdresse:bauherrAdresse"),
                                  Or(bauherrAddress, baseAddress)), LAMBDA bauAdr :
         IF ~bauAdr.ok THEN Thrown(bauAdr, rechAdr.db)
         ELSE IF auftragStatus.t = "nan" THEN Thrown(Err("InvalidParameter", "AuftragStatus"), bauAdr.db)
         ELSE IF pick = 0 THEN Thrown(Err("TemplateMissing", "ProjNr"), bauAdr.db)
         ELSE [status |-> "inserted", projnr |-> projnr,
               db |-> [bauAdr.db EXCEPT !.projekt =
                         Append(@, TemplateRow(db.projekt[pick], payload, projnr, projAdr.adrNrGes,
                                               rechAdr.adrNrGes, bauAdr.adrNrGes, auftragStatus)),
                                        !.log = Append(@, "insertProjekt")]])))

\* insertProjektFromTemplate, lines 133-147: the project number is there
normalizeAddresses(db, payload, projnr, pick) ==
  LET adr == Get(payload, "adresse")
      rech0 == Get(payload, "rechnungAdresse")
      bau0 == Get(payload, "bauherrAdresse")
      rechnungSame == ~(IsObj(rech0) /\ SameValue(Get(rech0.v, "sameAsAdresse"), Bool(FALSE)))
      bauherrSame == ~(IsObj(bau0) /\ SameValue(Get(bau0.v, "sameAsAdresse"), Bool(FALSE)))
  IN Bind(Or(IF IsObj(adr) THEN Get(adr.v, "adrNrGes") ELSE Null, buildAdrKey(projnr, "A")), LAMBDA baseKey :
     Bind(normalizeAddress(adr, baseKey), LAMBDA baseAddress :
       IF Falsy(baseAddress) THEN Thrown(Err("Missing", "adresse"), db)
       ELSE IF Falsy(baseAddress.v.name) \/ Falsy(baseAddress.v.strasse)
               \/ Falsy(baseAddress.v.plz) \/ Falsy(baseAddress.v.ort)
         THEN Thrown(Err("Missing", "adresse"), db)
       ELSE cloneFromTemplate(db, payload, projnr, baseAddress,
              IF rechnungSame THEN baseAddress ELSE normalizeAddress(rech0, buildAdrKey(baseKey, "R")),
              IF bauherrSame THEN baseAddress ELSE normalizeAddress(bau0, buildAdrKey(baseKey, "B")),
              pick)))

\* insertProjektFromTemplate: lines 129-228.  pick is the row SELECT TOP 1
\* returns, 0 when the SELECT yields no row.
insertProjektFromTemplate(db, templateProjNr, payloadV, pick) ==
  IF ~IsObj(payloadV) THEN Thrown(Err("TypeError", "payload"), db)
  ELSE Bind(fitStringTemplate(Get(payloadV.v, "projnr"), 30), LAMBDA projnr :
         IF Falsy(projnr) THEN Thrown(Err("Missing", "projnr"), db)
         ELSE normalizeAddresses(db, payloadV.v, projnr, pick))

(***************************************************************************)
(* One transaction of handleQueueItem around the workflow: lines 506-523   *)
(* of realtime-sync.js, lines 256-273 of unnamed/part_001                  *)
(***************************************************************************)
MaxTx == 3

EmptyDb == [projekt |-> <<>>, adrAdressen |-> <<>>, adrOrte |-> <<>>, log |-> <<>>]

\* a database that already holds the template project TPL and its address
TemplateDb ==
  [projekt |-> << [k \in TemplateInsertColumns |->
                     CASE k = "ProjNr" -> Str("TPL")
                       [] k \in {"ProjAdr", "RechAdr", "BauHrAdr"} -> Str("T1")
                       [] k = "AbtNr" -> Num(7)
                       [] k = "Direktlieferung" -> Num(0)
                       [] k \in {"ProjAnlage", "AuftragsDatum", "Createdate", "Editdate"} ->
                            [t |-> "date", v |-> "old"]
                       [] OTHER -> Null] >>,
   adrAdressen |-> << [AdrNrGes |-> Str("T1"), Name |-> Str("Muster"), Strasse |-> Str("Weg 1"),
                       Ort |-> Num(1)] >>,
   adrOrte |-> << OrtRow(1, Str("DE"), Str("10115"), Str("10115"), Str("Berlin"), Num(0)) >>,
   log |-> <<>>]

AdrPlain ==
  [name |-> Str("Acme GmbH"), strasse |-> Str("Weg 1"), plz |-> Str("10115"), ort |-> Str("Berlin")]
AdrKeyed == Put(AdrPlain, "adrNrGes", Str("K1"))
AdrBilling ==
  [sameAsAdresse |-> Bool(FALSE), name |-> Str("Bau AG"), strasse |-> Str("Ring 2"),
   plz |-> Str("20095"), ort |-> Str("Hamburg")]

\* both other roles say sameAsAdresse: true
PayloadSameAs ==
  Obj([projnr |-> Str("P1"), adresse |-> Obj(AdrPlain),
       rechnungAdresse |-> Obj([sameAsAdresse |-> Bool(TRUE)]),
       bauherrAdresse |-> Obj([sameAsAdresse |-> Bool(TRUE)])])

\* a billing sub-object that has no sameAsAdresse key
PayloadNoKey ==
  Obj([projnr |-> Str("P2"), adresse |-> Obj(AdrPlain),
       rechnungAdresse |-> Obj([name |-> Str("Bau AG"), strasse |-> Str("Ring 2"),
                                plz |-> Str("20095"), ort |-> Str("Hamburg")])])

\* the explicit address id K1 again, with another name and another town
PayloadMoved ==
  Obj([projnr |-> Str("P2"),
       adresse |-> Obj([adrNrGes |-> Str("K1"), name |-> Str("Other"), strasse |-> Str("Ring 2"),
                        plz |-> Str("20095"), ort |-> Str("Hamburg")])])

\* the project names K1 as its billing address, the billing address has no id
PayloadRechAdr ==
  Obj([projnr |-> Str("P2"), RechAdr |-> Str("K1"), adresse |-> Obj(AdrKeyed),
       rechnungAdresse |-> Obj(AdrBilling)])

\* the key foo, which no column answers to, in three places
PayloadUnknownRoot == Obj([projnr |-> Str("P1"), foo |-> Num(1), adresse |-> Obj(AdrPlain)])
PayloadUnknownAdr == Obj([projnr |-> Str("P1"), adresse |-> Obj(Put(AdrPlain, "foo", Num(1)))])
PayloadUnknownSame ==
  Obj([projnr |-> Str("P1"), adresse |-> Obj(AdrPlain),
       rechnungAdresse |-> Obj([sameAsAdresse |-> Bool(TRUE), foo |-> Num(1)])])

\* a project number of 31 characters for the 30 characters of ProjNr
LongProjNr == "P2026-0000-0000-0000-0000-0001A"
PayloadLongProjNr == Obj([projnr |-> Str(LongProjNr), adresse |-> Obj(AdrPlain)])

\* Createdate is sent as null, so the workflow does not fill it in
PayloadNullCreatedate == Obj([projnr |-> Str("P1"), Createdate |-> Null, adresse |-> Obj(AdrPlain)])

\* Createdate is sent with a value
SentDate == [t |-> "date", v |-> "sent"]
PayloadDated == Obj([projnr |-> Str("P1"), Createdate |-> SentDate, adresse |-> Obj(AdrPlain)])

\* the project fields in a projekt sub-object, alone and next to a root field
PayloadProjekt == Obj([projekt |-> Obj([projnr |-> Str("P1")]), adresse |-> Obj(AdrPlain)])
PayloadBothShapes ==
  Obj([projekt |-> Obj([projnr |-> Str("P1")]), projbezeichnung |-> Str("Umbau"),
       adresse |-> Obj(AdrPlain)])

WorkflowPayloads ==
  { Obj([projnr |-> Str("P1"), adresse |-> Obj(AdrPlain)]),
    Obj([projnr |-> Str("P1"), adresse |-> Obj(AdrKeyed)]),
    Obj([projnr |-> Str("P1"), ProjAdr |-> Str("ACME_PROJADR1"), adresse |-> Obj(AdrPlain)]),
    Obj([projnr |-> Str("P2"), adresse |-> Obj(AdrPlain), rechnungAdresse |-> Obj(AdrBilling)]),
    Obj([projnr |-> Str("P1")]),
    Null,
    PayloadSameAs, PayloadNoKey, PayloadMoved, PayloadRechAdr,
    PayloadUnknownRoot, PayloadUnknownAdr, PayloadUnknownSame, PayloadLongProjNr,
    PayloadNullCreatedate, PayloadProjekt, PayloadBothShapes, PayloadDated }

Picks(dbNow) ==
  IF strategy = "template" /\ TemplateCandidates(dbNow, TEMPLATE_PROJNR) /= {}
    THEN TemplateCandidates(dbNow, TEMPLATE_PROJNR)
    ELSE {0}

\* await insertProjektDirect(trx, payload) / insertProjektFromTemplate(trx, payload)
runWorkflow(payloadV, pick) ==
  IF strategy = "direct" THEN insertProjektDirect(mssqlDb, sysColumns, payloadV)
  ELSE insertProjektFromTemplate(mssqlDb, TEMPLATE_PROJNR, payloadV, pick)

\* the tables a transaction leaves behind
Committed(db) == [db EXCEPT !.log = <<>>]

RunRecord(payloadV, r, after) ==
  [payload |-> payloadV, status |-> r.status, before |-> mssqlDb, after |-> after,
   rerun |-> payloadV \in insertedBy, log |-> r.db.log, rollback |-> "none",
   err |-> IF r.status = "error" THEN r.err ELSE "", field |-> IF r.status = "error" THEN r.field ELSE "",
   trxDb |-> r.db]

\* the workflow returned: trx.commit()
TxCommit ==
  /\ strategy \in {"direct", "template"} /\ txCount < MaxTx
  /\ \E payloadV \in WorkflowPayloads, pick \in Picks(mssqlDb) :
       \E r \in {runWorkflow(payloadV, pick)} :
         /\ r.status /= "error"
         /\ mssqlDb' = Committed(r.db)
         /\ lastRun' = RunRecord(payloadV, r, Committed(r.db))
         /\ insertedBy' = IF r.status = "inserted" THEN insertedBy \cup {payloadV} ELSE insertedBy
  /\ txCount' = txCount + 1
  /\ UNCHANGED <<strategy, sysColumns, TEMPLATE_PROJNR, queueVars, poolPromise, subscriberVars, cloneVars, auxVars>>

\* the workflow threw: trx.rollback()
TxRollback ==
  /\ strategy \in {"direct", "template"} /\ txCount < MaxTx
  /\ \E payloadV \in WorkflowPayloads, pick \in Picks(mssqlDb) :
       \E r \in {runWorkflow(payloadV, pick)} :
         /\ r.status = "error"
         /\ lastRun' = RunRecord(payloadV, r, mssqlDb)
  /\ txCount' = txCount + 1
  /\ UNCHANGED <<strategy, sysColumns, TEMPLATE_PROJNR, mssqlDb, insertedBy, queueVars, poolPromise,
                 subscriberVars, cloneVars, auxVars>>

NoRun == [payload |-> Null, status |-> "none", before |-> EmptyDb, after |-> EmptyDb, rerun |-> FALSE,
          log |-> <<>>, rollback |-> "none", err |-> "", field |-> "", trxDb |-> EmptyDb]

\* no clone run is in progress
CloneIdle ==
  /\ batchSize = 1 /\ opts = DefaultOpts
  /\ source = [t \in Tables |-> [rows |-> 0, columns |-> <<>>]]
  /\ target = [t \in Tables |-> [exists |-> FALSE, rows |-> <<>>]]
  /\ rpc = "notStarted" /\ runNo = 0 /\ ti = 1
  /\ decision = [t \in Tables |-> NoDecision]
  /\ CopyIdle /\ HistIdle /\ stmtLog = <<>>

\* no queue item exists and the consumer is idle
QueueIdle ==
  /\ store = <<>> /\ queue = <<>> /\ processing = FALSE /\ enqueuedIds = {}
  /\ hpc = "idle" /\ item = <<>> /\ curResult = <<>> /\ notifications = {}
  /\ pollResp = {} /\ pollCount = 0 /\ requeueCount = 0 /\ faultCount = 0

\* no function is called on its own and no concurrent worker runs
AuxIdle == call = <<>> /\ ret = <<>> /\ trx = <<>> /\ CacheIdle

\* no change event has reached the table subscriber
SubscriberIdle == batch = <<>> /\ eventCount = 0 /\ written = {} /\ upsertFailed = FALSE

InitWorkflow ==
  /\ strategy \in {"direct", "template"}
  /\ sysColumns \in CatalogChoices
  /\ TEMPLATE_PROJNR \in {Null, Str("TPL")}
  /\ mssqlDb \in {EmptyDb, TemplateDb}
  /\ txCount = 0 /\ lastRun = NoRun /\ insertedBy = {}
  /\ poolPromise = "resolved"
  /\ QueueIdle /\ SubscriberIdle /\ CloneIdle /\ AuxIdle

NextWorkflow ==
  \/ TxCommit
  \/ TxRollback

SpecWorkflow == InitWorkflow /\ [][NextWorkflow]_vars

(***************************************************************************)
(* The queue consumer (realtime-sync.js lines 480-596; unnamed/part_001    *)
(* lines 230-346 are the same code around insertProjektFromTemplate).      *)
(* Status writes to the queue table succeed.                               *)
(***************************************************************************)
MaxItems == 2
MaxPolls == 1
MaxRequeues == 1
MaxFaults == 1

Ids == 1..MaxItems

QueuePayloads ==
  { Obj([projnr |-> Str("P1"), adresse |-> Obj(AdrPlain)]),
    Obj([projnr |-> Str("P1")]) }

Absent == [id |-> 0, status |-> "absent", attempt_count |-> 0, payload |-> Null, error |-> Null]

\* parsePayload: row.payload of a jsonb column arrives as an object
parsePayload(r) == IF IsObj(r.payload) THEN r.payload ELSE Null

Worker == [queue |-> queue, enqueuedIds |-> enqueuedIds, processing |-> processing,
           hpc |-> hpc, item |-> item]

SetWorker(w) ==
  /\ queue' = w.queue /\ enqueuedIds' = w.enqueuedIds /\ processing' = w.processing
  /\ hpc' = w.hpc /\ item' = w.item

\* processQueue without the test of the processing flag
processQueueNoFlag(w) ==
  IF w.queue = <<>> THEN w
  ELSE [w EXCEPT !.processing = TRUE, !.item = Head(w.queue), !.queue = Tail(w.queue),
                 !.hpc = "writeProcessing"]

\* processQueue: lines 543-554, up to the first await of handleQueueItem
processQueue(w) ==
  IF w.processing \/ w.queue = <<>> THEN w
  ELSE [w EXCEPT !.processing = TRUE, !.item = Head(w.queue), !.queue = Tail(w.queue),
                 !.hpc = "writeProcessing"]

\* enqueue: lines 535-541
enqueue(w, r) ==
  IF r.id = 0 THEN w
  ELSE IF r.id \in w.enqueuedIds THEN w
  ELSE processQueue([w EXCEPT !.enqueuedIds = @ \cup {r.id}, !.queue = Append(@, r)])

RECURSIVE enqueueAll(_, _)
enqueueAll(w, rows) == IF rows = <<>> THEN w ELSE enqueueAll(enqueue(w, Head(rows)), Tail(rows))

\* a producer inserts a pending item; the INSERT notification may be lost
ProducerInsert ==
  /\ \E id \in Ids, payloadV \in QueuePayloads, notify \in BOOLEAN :
       LET new == [id |-> id, status |-> "pending", attempt_count |-> 0, payload |-> payloadV,
                   error |-> Null] IN
         /\ store[id].status = "absent"
         /\ \A j \in Ids : j < id => store[j].status /= "absent"
         /\ store' = [store EXCEPT ![id] = new]
         /\ notifications' = IF notify THEN notifications \cup {[event |-> "INSERT", new |-> new]}
                             ELSE notifications
  /\ UNCHANGED <<queue, processing, enqueuedIds, hpc, item, curResult, pollResp, pollCount, requeueCount>>
  /\ UNCHANGED <<workflowVars, poolPromise, faultCount, subscriberVars, cloneVars, auxVars>>

\* a producer puts a finished item back to pending
Requeue ==
  /\ requeueCount < MaxRequeues
  /\ \E id \in Ids, notify \in BOOLEAN :
       LET new == [store[id] EXCEPT !.status = "pending"] IN
         /\ store[id].status \in {"done", "error"}
         /\ store' = [store EXCEPT ![id] = new]
         /\ notifications' = IF notify THEN notifications \cup {[event |-> "UPDATE", new |-> new]}
                             ELSE notifications
  /\ requeueCount' = requeueCount + 1
  /\ UNCHANGED <<queue, processing, enqueuedIds, hpc, item, curResult, pollResp, pollCount>>
  /\ UNCHANGED <<workflowVars, poolPromise, faultCount, subscriberVars, cloneVars, auxVars>>

\* realtime INSERT handler: lines 584-588
OnInsert ==
  /\ hpc /= "exited"
  /\ \E n \in notifications :
       /\ n.event = "INSERT"
       /\ notifications' = notifications \ {n}
       /\ IF n.new.status /= "pending" THEN SetWorker(Worker) ELSE SetWorker(enqueue(Worker, n.new))
  /\ UNCHANGED <<store, curResult, pollResp, pollCount, requeueCount, workflowVars, poolPromise, faultCount,
                 subscriberVars, cloneVars, auxVars>>

\* realtime UPDATE handler: lines 589-593
OnUpdate ==
  /\ hpc /= "exited"
  /\ \E n \in notifications :
       /\ n.event = "UPDATE"
       /\ notifications' = notifications \ {n}
       /\ IF n.new.status /= "pending" THEN SetWorker(Worker) ELSE SetWorker(enqueue(Worker, n.new))
  /\ UNCHANGED <<store, curResult, pollResp, pollCount, requeueCount, workflowVars, poolPromise, faultCount,
                 subscriberVars, cloneVars, auxVars>>

PendingRows == SelectSeq([i \in Ids |-> store[i]], LAMBDA r : r.status = "pending")

\* fetchPendingQueue, lines 557-563: the query is answered from the table
fetchPendingQueue ==
  /\ hpc /= "exited"
  /\ pollCount < MaxPolls
  /\ pollCount' = pollCount + 1
  /\ pollResp' = pollResp \cup {[poll |-> pollCount + 1, data |-> PendingRows]}
  /\ UNCHANGED <<store, queue, processing, enqueuedIds, hpc, item, curResult, notifications, requeueCount>>
  /\ UNCHANGED <<workflowVars, poolPromise, faultCount, subscriberVars, cloneVars, auxVars>>

\* fetchPendingQueue, lines 564-570: the result arrives, every row is enqueued
PollResult ==
  /\ hpc /= "exited"
  /\ \E r \in pollResp :
       /\ pollResp' = pollResp \ {r}
       /\ SetWorker(enqueueAll(Worker, r.data))
  /\ UNCHANGED <<store, curResult, notifications, pollCount, requeueCount, workflowVars, poolPromise, faultCount,
                 subscriberVars, cloneVars, auxVars>>

\* handleQueueItem, lines 497-504
WriteProcessing ==
  /\ hpc = "writeProcessing"
  /\ store' = [store EXCEPT ![item.id].status = "processing",
                            ![item.id].attempt_count = item.attempt_count + 1]
  /\ hpc' = "transaction"
  /\ UNCHANGED <<queue, processing, enqueuedIds, item, curResult, notifications, pollResp,
                 pollCount, requeueCount>>
  /\ UNCHANGED <<workflowVars, poolPromise, faultCount, subscriberVars, cloneVars, auxVars>>

\* handleQueueItem, line 506: poolPromise is rejected and the await throws
\* outside the try of line 508, so nothing is caught and the finally of
\* line 530 does not run; processQueue leaves its loop through its finally
\* (lines 551-553) and its promise, which enqueue does not await (line 540),
\* is rejected: Node ends the process or only warns, as it is configured.
PoolRejected ==
  /\ hpc = "transaction" /\ poolPromise = "rejected"
  /\ \E exits \in BOOLEAN : hpc' = IF exits THEN "exited" ELSE "idle"
  /\ processing' = FALSE
  /\ item' = Absent
  /\ UNCHANGED <<store, queue, enqueuedIds, curResult, notifications, pollResp, pollCount, requeueCount>>
  /\ UNCHANGED <<workflowVars, poolPromise, faultCount, subscriberVars, cloneVars, auxVars>>

ErrorTextMax == 2000

Twice(s) == s \o s
\* a message of 3840 characters
LongText == Twice(Twice(Twice(Twice(Twice(Twice(Twice(Twice("commit failed. "))))))))

BeginError == Str("begin failed")
CommitError == Str(LongText)
RollbackError == Str("rollback failed")

\* err.message of an error the workflow threw
ErrorMessage(r) == Str(r.field \o ": " \o r.err)

NoResult == [status |-> "none", message |-> Null, rollback |-> "none", rollbackMessage |-> Null]

\* the catch block of handleQueueItem writing the rollback's error
errorTextOfLastError(err, rollbackErr) ==
  truncateString(IF IsNull(rollbackErr) THEN err ELSE rollbackErr, ErrorTextMax)

\* line 527: truncateString(err.message || String(err), 2000)
errorText(err, rollbackErr) == truncateString(err, ErrorTextMax)

\* every statement committed as it is issued, as on requests made on the pool
AfterTransactionAutoCommit(fault, r) == Committed(r.db)

\* the tables after the transaction: every statement ran on a Request of trx
\* (lines 109-468), so commit stores them all and rollback, or a commit that
\* failed, none
AfterTransaction(fault, r) ==
  IF fault /= "none" \/ r.status = "error" THEN mssqlDb ELSE Committed(r.db)

\* handleQueueItem, lines 506-511 and 518-523: begin, workflow, commit; when
\* one of them throws, rollback, whose own error is ignored
RunTransaction ==
  /\ hpc = "transaction" /\ poolPromise = "resolved"
  /\ \E pick \in Picks(mssqlDb), fault \in {"none", "begin", "commit"}, rollbackFails \in BOOLEAN :
       \E r \in {IF fault = "begin" THEN Thrown(Err("Failed", "begin"), mssqlDb)
                 ELSE runWorkflow(parsePayload(item), pick)} :
         /\ fault /= "none" => faultCount < MaxFaults
         /\ faultCount' = IF fault = "none" THEN faultCount ELSE faultCount + 1
         /\ fault = "commit" => r.status /= "error"
         /\ rollbackFails => (fault /= "none" \/ r.status = "error")
         /\ mssqlDb' = AfterTransaction(fault, r)
         /\ curResult' =
              IF fault = "none" /\ r.status /= "error" THEN [NoResult EXCEPT !.status = r.status]
              ELSE [status |-> "error",
                    message |-> CASE fault = "begin" -> BeginError
                                  [] fault = "commit" -> CommitError
                                  [] OTHER -> ErrorMessage(r),
                    rollback |-> IF rollbackFails THEN "failed" ELSE "ok",
                    rollbackMessage |-> IF rollbackFails THEN RollbackError ELSE Null]
         /\ lastRun' = [RunRecord(parsePayload(item),
                                  IF fault = "commit" THEN Thrown(Err("Failed", "commit"), r.db) ELSE r,
                                  AfterTransaction(fault, r))
                          EXCEPT !.rollback = CASE fault = "none" /\ r.status /= "error" -> "none"
                                                [] rollbackFails -> "failed"
                                                [] OTHER -> "ok"]
         /\ insertedBy' = IF fault = "none" /\ r.status = "inserted"
                            THEN insertedBy \cup {parsePayload(item)} ELSE insertedBy
  /\ hpc' = "writeTerminal"
  /\ UNCHANGED <<strategy, sysColumns, TEMPLATE_PROJNR, txCount>>
  /\ UNCHANGED <<store, queue, processing, enqueuedIds, item, notifications, pollResp,
                 pollCount, requeueCount, poolPromise, subscriberVars, cloneVars, auxVars>>

\* handleQueueItem, lines 512-516 / 524-528, finally 530-532, and the loop of
\* processQueue going on with the next queued row
WriteTerminal ==
  /\ hpc = "writeTerminal"
  /\ store' = [store EXCEPT
                 ![item.id].status = IF curResult.status = "error" THEN "error" ELSE "done",
                 ![item.id].error =
                    CASE curResult.status = "error" ->
                           errorText(curResult.message, curResult.rollbackMessage)
                      [] curResult.status = "exists" -> Str("ProjNr exists, skipped insert.")
                      [] OTHER -> Null]
  /\ SetWorker(processQueue([Worker EXCEPT !.enqueuedIds = @ \ {item.id}, !.processing = FALSE,
                                           !.hpc = "idle", !.item = Absent]))
  /\ curResult' = NoResult
  /\ UNCHANGED <<notifications, pollResp, pollCount, requeueCount, workflowVars, poolPromise, faultCount,
                 subscriberVars, cloneVars, auxVars>>

InitQueue ==
  /\ strategy \in {"direct", "template"}
  /\ sysColumns = [projekt |-> ProjektColumns, adrAdressen |-> AdrColumns(TRUE)]
  /\ TEMPLATE_PROJNR = Null
  /\ mssqlDb = TemplateDb
  /\ txCount = 0 /\ lastRun = NoRun /\ insertedBy = {}
  /\ store = [i \in Ids |-> Absent]
  /\ queue = <<>> /\ processing = FALSE /\ enqueuedIds = {}
  /\ hpc = "idle" /\ item = Absent /\ curResult = NoResult /\ notifications = {}
  /\ pollResp = {} /\ pollCount = 0 /\ requeueCount = 0 /\ faultCount = 0
  /\ poolPromise \in {"resolved", "rejected"}
  /\ SubscriberIdle /\ CloneIdle /\ AuxIdle

NextQueue ==
  \/ ProducerInsert
  \/ Requeue
  \/ OnInsert
  \/ OnUpdate
  \/ fetchPendingQueue
  \/ PollResult
  \/ WriteProcessing
  \/ PoolRejected
  \/ RunTransaction
  \/ WriteTerminal

SpecQueue == InitQueue /\ [][NextQueue]_vars

\* RunTransaction can be taken exactly in these states, and it is the only
\* step that leaves them
InTransaction == hpc = "transaction" /\ poolPromise = "resolved"

\* the event loop delivers what has arrived and every await of the worker
\* settles; producers and the poll timer are under no obligation.  The last
\* conjunct is the weak fairness of RunTransaction, written over the states
\* in which it can be taken.
SpecQueueFair ==
  /\ SpecQueue
  /\ WF_vars(OnInsert) /\ WF_vars(OnUpdate) /\ WF_vars(PollResult)
  /\ WF_vars(WriteProcessing) /\ WF_vars(PoolRejected) /\ WF_vars(WriteTerminal)
  /\ []<>(~InTransaction)

(***************************************************************************)
(* The table-based realtime subscriber (unnamed/part_002): change events   *)
(* on public.projekt are queued and merged into dbo.Projekt in batches.    *)
(* Of the nine columns the model keeps ProjNr and ProjBezeichnung; a       *)
(* queued row carries the number n of its change event as a history tag.   *)
(***************************************************************************)
MaxEvents == 3

\* fitString of the subscriber: lines 31-35
fitStringTable(x, maxLen) == truncateString(x, maxLen)

\* normalizeRow: lines 110-123
normalizeRow(rowV) ==
  IF ~IsObj(rowV) THEN Null
  ELSE IF Falsy(Get(rowV.v, "projnr")) THEN Null
  ELSE Obj([projnr |-> Str(ToStr(Get(rowV.v, "projnr"))),
            projbezeichnung |-> Get(rowV.v, "projbezeichnung")])

\* payloads of postgres_changes events on public.projekt
ChangeEvents ==
  {[eventType |-> t, new |-> Obj(r)] :
     t \in {"INSERT", "UPDATE"},
     r \in {[projnr |-> Str("P1"), projbezeichnung |-> Str("a")],
            [projnr |-> Str("P1"), projbezeichnung |-> Str("b")],
            [projnr |-> Str("P2"), projbezeichnung |-> Str("a")],
            [projbezeichnung |-> Str("a")]}}
  \cup {[eventType |-> "DELETE", new |-> Obj(EmptyObject)]}

\* upsertToMSSQL, lines 52-64: the row added to the bulk table
TmpRow(r) == [ProjNr |-> fitStringTable(r.projnr, 15), ProjBezeichnung |-> r.projbezeichnung]

\* the bulk insert into #tmp_proj violates its PRIMARY KEY (lines 70, 82)
HasDuplicateKey(rows) ==
  \E i, j \in 1..Len(rows) : i < j /\ TmpRow(rows[i].row).ProjNr = TmpRow(rows[j].row).ProjNr

\* MERGE dbo.Projekt, lines 84-101: one source row
MergeRow(tab, r) ==
  IF \E i \in 1..Len(tab) : SameValue(tab[i]["ProjNr"], r.ProjNr)
    THEN [i \in 1..Len(tab) |-> IF SameValue(tab[i]["ProjNr"], r.ProjNr) THEN r ELSE tab[i]]
    ELSE Append(tab, r)

RECURSIVE Merge(_, _)
Merge(tab, rows) ==
  IF rows = <<>> THEN tab ELSE Merge(MergeRow(tab, TmpRow(Head(rows).row)), Tail(rows))

Subscriber == [queue |-> queue, processing |-> processing, batch |-> batch]

\* processQueue of the subscriber: lines 125-130, up to the await of upsertToMSSQL
processQueueTable(w) ==
  IF w.processing \/ w.queue = <<>> THEN w
  ELSE [w EXCEPT !.processing = TRUE, !.batch = w.queue, !.queue = <<>>]

\* the postgres_changes handler: lines 143-152
OnChange ==
  /\ strategy = "table" /\ eventCount < MaxEvents
  /\ eventCount' = eventCount + 1
  /\ \E e \in ChangeEvents :
       \E w \in {IF e.eventType = "DELETE" \/ IsNull(normalizeRow(e.new)) THEN Subscriber
                 ELSE processQueueTable(
                        [Subscriber EXCEPT !.queue = Append(@, [n |-> eventCount + 1,
                                                                 row |-> normalizeRow(e.new).v])])} :
         /\ queue' = w.queue /\ processing' = w.processing /\ batch' = w.batch
  /\ UNCHANGED <<mssqlDb, written, upsertFailed, poolPromise, faultCount>>
  /\ UNCHANGED <<strategy, sysColumns, TEMPLATE_PROJNR, txCount, lastRun, insertedBy>>
  /\ UNCHANGED <<store, enqueuedIds, hpc, item, curResult, notifications, pollResp, pollCount,
                 requeueCount, cloneVars, auxVars>>

\* upsertToMSSQL returned: lines 130-131, finally 134-136
UpsertOk ==
  /\ strategy = "table" /\ processing /\ batch /= <<>>
  /\ poolPromise = "resolved" /\ ~HasDuplicateKey(batch)
  /\ mssqlDb' = [mssqlDb EXCEPT !.projekt = Merge(@, batch)]
  /\ written' = written \cup {batch[i].n : i \in 1..Len(batch)}
  /\ processing' = FALSE /\ batch' = <<>>
  /\ UNCHANGED <<queue, eventCount, upsertFailed, poolPromise, faultCount>>
  /\ UNCHANGED <<strategy, sysColumns, TEMPLATE_PROJNR, txCount, lastRun, insertedBy>>
  /\ UNCHANGED <<store, enqueuedIds, hpc, item, curResult, notifications, pollResp, pollCount,
                 requeueCount, cloneVars, auxVars>>

\* upsertToMSSQL threw (no pool, a duplicate key in the batch, a failed
\* request): catch 132-133, finally 134-136; the batch is dropped
UpsertFail ==
  /\ strategy = "table" /\ processing /\ batch /= <<>>
  /\ upsertFailed' = TRUE
  /\ processing' = FALSE /\ batch' = <<>>
  /\ UNCHANGED <<queue, eventCount, written, mssqlDb, poolPromise, faultCount>>
  /\ UNCHANGED <<strategy, sysColumns, TEMPLATE_PROJNR, txCount, lastRun, insertedBy>>
  /\ UNCHANGED <<store, enqueuedIds, hpc, item, curResult, notifications, pollResp, pollCount,
                 requeueCount, cloneVars, auxVars>>

InitSubscriber ==
  /\ strategy = "table"
  /\ sysColumns = <<>> /\ TEMPLATE_PROJNR = <<>>
  /\ mssqlDb = EmptyDb
  /\ txCount = 0 /\ lastRun = NoRun /\ insertedBy = {}
  /\ poolPromise \in {"resolved", "rejected"}
  /\ QueueIdle /\ SubscriberIdle /\ CloneIdle /\ AuxIdle

NextSubscriber ==
  \/ OnChange
  \/ UpsertOk
  \/ UpsertFail

SpecSubscriber == InitSubscriber /\ [][NextSubscriber]_vars

\* an upsert that was started settles: its requests are answered or fail
SpecSubscriberFair == SpecSubscriber /\ WF_vars(UpsertOk) /\ WF_vars(UpsertFail)

(***************************************************************************)
(* The functions normalizeValueForColumn, mapPayloadToColumns and          *)
(* generateAdrNrGes of realtime-sync.js called on their own: a behaviour   *)
(* fixes the arguments and calls the function MaxCalls times.              *)
(***************************************************************************)
MaxCalls == 2

\* raw values of a payload field; undefined and null are both Null
RawValues ==
  {Null, Str(""), Str("abc"), Str("12"), Num(0), Num(7), Bool(TRUE), Bool(FALSE)}

ColumnTypes ==
  {"nvarchar", "varchar", "int", "smallint", "float", "decimal", "money", "bit",
   "smalldatetime", "uniqueidentifier"}

NormalizeCalls ==
  {[fn |-> "normalizeValueForColumn", value |-> x,
    meta |-> Meta("Spalte", ty, 8, nullable, FALSE, FALSE, FALSE)] :
      x \in RawValues, ty \in ColumnTypes, nullable \in BOOLEAN}

\* payload objects whose keys all answer to a column of dbo.Projekt
MapKeys == {"projnr", "abtnr", "ProjektID", "kurzname", "rowver", "offline_sync_id"}
MapCalls ==
  {[fn |-> "mapPayloadToColumns", raw |-> [k \in keys |-> Str("1")], columns |-> ProjektColumns] :
      keys \in SUBSET MapKeys}

\* display names and the ids dbo.adrAdressen holds already
DisplayNames == {"Acme GmbH", "Abcdefghijkl", "Müller & Söhne Bau KG", ""}
RoleTags == {"PROJADR", "RECHADR", "BAUHRADR"}
ExistingIds ==
  { <<>>,
    <<"ACME_PROJADR1">>,
    <<"ACME_PROJADR7", "ACME_PROJADR2", "ACME_RECHADR3">>,
    <<"ABCDEFGHIJKL_PROJADR9999">>,
    <<"ABCDEFGHIJKL_PROJADR9999", "ABCDEFGHIJK_PROJADR10000">>,
    <<"MUELLER_UND_SOEHNE_BAU_BAUHRADR12", "K1">> }

DbOfIds(ids) ==
  [EmptyDb EXCEPT !.adrAdressen = [i \in 1..Len(ids) |-> [AdrNrGes |-> Str(ids[i])]]]

GenerateCalls ==
  {[fn |-> "generateAdrNrGes", address |-> [name |-> Str(n)], typeTag |-> tag, ids |-> ids] :
      n \in DisplayNames, tag \in RoleTags, ids \in ExistingIds}

CallNormalizeValueForColumn ==
  /\ call.fn = "normalizeValueForColumn" /\ Len(ret) < MaxCalls
  /\ ret' = Append(ret, normalizeValueForColumn(call.value, call.meta))
  /\ UNCHANGED <<call, trx, cacheVars, workflowVars, queueVars, poolPromise, subscriberVars, cloneVars>>

CallMapPayloadToColumns ==
  /\ call.fn = "mapPayloadToColumns" /\ Len(ret) < MaxCalls
  /\ ret' = Append(ret, mapPayloadToColumns(call.raw, call.columns, {}, "projekt"))
  /\ UNCHANGED <<call, trx, cacheVars, workflowVars, queueVars, poolPromise, subscriberVars, cloneVars>>

CallGenerateAdrNrGes ==
  /\ call.fn = "generateAdrNrGes" /\ Len(ret) < MaxCalls
  /\ ret' = Append(ret, generateAdrNrGes(DbOfIds(call.ids), call.address, call.typeTag))
  /\ UNCHANGED <<call, trx, cacheVars, workflowVars, queueVars, poolPromise, subscriberVars, cloneVars>>

InitFunctions ==
  /\ \/ call \in NormalizeCalls
     \/ call \in MapCalls
     \/ call \in GenerateCalls
  /\ ret = <<>> /\ trx = <<>> /\ CacheIdle
  /\ strategy = "none" /\ sysColumns = <<>> /\ TEMPLATE_PROJNR = <<>> /\ mssqlDb = <<>>
  /\ txCount = 0 /\ lastRun = <<>> /\ insertedBy = {}
  /\ poolPromise = "resolved"
  /\ QueueIdle /\ SubscriberIdle /\ CloneIdle

NextFunctions ==
  \/ CallNormalizeValueForColumn
  \/ CallMapPayloadToColumns
  \/ CallGenerateAdrNrGes

SpecFunctions == InitFunctions /\ [][NextFunctions]_vars

(***************************************************************************)
(* Two workers resolving an address at the same time: each runs the        *)
(* statements of generateAdrNrGes, ensureAdresse and ensureOrt of          *)
(* realtime-sync.js in its own transaction, one statement per step.  A     *)
(* statement sees the committed rows and the rows of its own transaction.  *)
(* Whether the tables have a unique key is not in the code: when a         *)
(* transaction holds a row whose key is committed already, its commit      *)
(* either stores the duplicate or fails and is rolled back.                *)
(***************************************************************************)
Workers == {1, 2}

IdleTrx ==
  [pc |-> "idle", address |-> <<>>, adrNrGes |-> "", nextId |-> 0, ortId |-> 0,
   ortRows |-> <<>>, adrRows |-> <<>>]

\* the addresses the two workers are given
ConcurrentAddresses ==
  { AdrPlain,
    [name |-> Str("Acme GmbH"), strasse |-> Str("Ring 2"), plz |-> Str("20095"), ort |-> Str("Hamburg")],
    [name |-> Str("Bau AG"), strasse |-> Str("Ring 2"), plz |-> Str("20095"), ort |-> Str("Hamburg")] }

\* what the statements of worker w see
Visible(w) ==
  [mssqlDb EXCEPT !.adrOrte = @ \o trx[w].ortRows, !.adrAdressen = @ \o trx[w].adrRows]

\* a next id that steps over the ids other workers have read and not inserted
ReadNextIdReserved(w) ==
  MaxOf({NextOrtId(Visible(w)) - 1}
          \cup {trx[o].nextId : o \in {x \in Workers \ {w} : trx[x].pc = "insertOrt"}}) + 1

\* lines 154-155: MAX(OrtID) + 1 over the rows the statement sees
ReadNextId(w) == NextOrtId(Visible(w))

Step(w, next) ==
  /\ trx' = [trx EXCEPT ![w] = next]
  /\ UNCHANGED <<strategy, sysColumns, TEMPLATE_PROJNR, mssqlDb, txCount, lastRun, insertedBy>>
  /\ UNCHANGED <<queueVars, poolPromise, subscriberVars, cloneVars, call, ret, cacheVars>>

\* handleQueueItem line 507 and insertProjektDirect up to line 401
BeginTrx(w) ==
  /\ trx[w].pc = "idle" /\ txCount < MaxTx
  /\ \E address \in ConcurrentAddresses :
       trx' = [trx EXCEPT ![w] = [IdleTrx EXCEPT !.pc = "generate", !.address = address]]
  /\ txCount' = txCount + 1
  /\ UNCHANGED <<strategy, sysColumns, TEMPLATE_PROJNR, mssqlDb, lastRun, insertedBy>>
  /\ UNCHANGED <<queueVars, poolPromise, subscriberVars, cloneVars, call, ret, cacheVars>>

\* generateAdrNrGes, lines 109-128
SelectPrefix(w) ==
  /\ trx[w].pc = "generate"
  /\ Step(w, [trx[w] EXCEPT !.pc = "selectAdr",
                            !.adrNrGes = generateAdrNrGes(Visible(w), trx[w].address, "PROJADR")])

\* ensureAdresse, lines 333-338
SelectAdr(w) ==
  /\ trx[w].pc = "selectAdr"
  /\ Step(w, [trx[w] EXCEPT !.pc = IF AdrExists(Visible(w), Str(trx[w].adrNrGes))
                                     THEN "commit" ELSE "selectOrt"])

\* ensureOrt, lines 147-152
SelectOrt(w) ==
  /\ trx[w].pc = "selectOrt"
  /\ \E hits \in {OrtHits(Visible(w), trx[w].address.plz, trx[w].address.ort)} :
       Step(w, IF hits /= {}
                 THEN [trx[w] EXCEPT !.pc = "insertAdr",
                                     !.ortId = Visible(w).adrOrte[MinOf(hits)]["OrtID"].v]
                 ELSE [trx[w] EXCEPT !.pc = "selectMaxOrtID"])

\* ensureOrt, lines 153-155
SelectMaxOrtID(w) ==
  /\ trx[w].pc = "selectMaxOrtID"
  /\ Step(w, [trx[w] EXCEPT !.pc = "insertOrt", !.nextId = ReadNextId(w)])

\* ensureOrt, lines 156-166
InsertOrt(w) ==
  /\ trx[w].pc = "insertOrt"
  /\ Step(w, [trx[w] EXCEPT !.pc = "insertAdr", !.ortId = trx[w].nextId,
                            !.ortRows = Append(@, OrtRow(trx[w].nextId, Str("DE"), trx[w].address.plz,
                                                         trx[w].address.plz, trx[w].address.ort, Num(0)))])

\* ensureAdresse, lines 366-380
InsertAdr(w) ==
  /\ trx[w].pc = "insertAdr"
  /\ \E data \in {mapPayloadToColumns(Put(trx[w].address, "AdrNrGes", Str(trx[w].adrNrGes)),
                                       AdrColumns(TRUE), AddressExtraKeys, "adresse").val} :
       Step(w, [trx[w] EXCEPT !.pc = "commit",
                              !.adrRows = Append(@, Put(data, "Ort", Num(trx[w].ortId)))])

\* a row of the transaction has the key of a committed row
KeyTaken(w) ==
  \/ \E i \in 1..Len(trx[w].ortRows), j \in 1..Len(mssqlDb.adrOrte) :
       trx[w].ortRows[i]["OrtID"] = mssqlDb.adrOrte[j]["OrtID"]
  \/ \E i \in 1..Len(trx[w].adrRows), j \in 1..Len(mssqlDb.adrAdressen) :
       Get(trx[w].adrRows[i], "AdrNrGes") = Get(mssqlDb.adrAdressen[j], "AdrNrGes")

\* handleQueueItem, lines 510-511: trx.commit()
CommitTrx(w) ==
  /\ trx[w].pc = "commit"
  /\ mssqlDb' = Visible(w)
  /\ trx' = [trx EXCEPT ![w] = IdleTrx]
  /\ UNCHANGED <<strategy, sysColumns, TEMPLATE_PROJNR, txCount, lastRun, insertedBy>>
  /\ UNCHANGED <<queueVars, poolPromise, subscriberVars, cloneVars, call, ret, cacheVars>>

\* handleQueueItem, lines 518-523: a statement failed on a key, trx.rollback()
RollbackTrx(w) ==
  /\ trx[w].pc = "commit" /\ KeyTaken(w)
  /\ Step(w, IdleTrx)

InitConcurrent ==
  /\ strategy = "direct"
  /\ sysColumns = [projekt |-> ProjektColumns, adrAdressen |-> AdrColumns(TRUE)]
  /\ TEMPLATE_PROJNR = Null
  /\ mssqlDb \in {EmptyDb, TemplateDb}
  /\ txCount = 0 /\ lastRun = NoRun /\ insertedBy = {}
  /\ poolPromise = "resolved"
  /\ QueueIdle /\ SubscriberIdle /\ CloneIdle
  /\ call = <<>> /\ ret = <<>> /\ CacheIdle
  /\ trx = [w \in Workers |-> IdleTrx]

NextConcurrent ==
  \E w \in Workers :
    \/ BeginTrx(w)
    \/ SelectPrefix(w)
    \/ SelectAdr(w)
    \/ SelectOrt(w)
    \/ SelectMaxOrtID(w)
    \/ InsertOrt(w)
    \/ InsertAdr(w)
    \/ CommitTrx(w)
    \/ RollbackTrx(w)

SpecConcurrent == InitConcurrent /\ [][NextConcurrent]_vars

(***************************************************************************)
(* getTableColumns of realtime-sync.js and its two module-level caches.    *)
(* The catalog answers for three table names; a table that does not exist  *)
(* has no columns (OBJECT_ID is NULL, the recordset is empty).             *)
(* dbo.adrAdressen exists in every catalog of this section: without it the *)
(* first SELECT of the address resolution fails.                           *)
(***************************************************************************)
MaxLookups == 3

TableNames == {"dbo.Projekt", "dbo.adrAdressen", "dbo.adrOrte"}

\* sys.columns of dbo.adrOrte
OrtColumns ==
  << Meta("OrtID", "int", 4, FALSE, FALSE, FALSE, FALSE),
     Meta("Land", "nvarchar", 6, TRUE, FALSE, FALSE, FALSE),
     Meta("PLZ", "nvarchar", 32, TRUE, FALSE, FALSE, FALSE),
     Meta("PLZN", "nvarchar", 32, TRUE, FALSE, FALSE, FALSE),
     Meta("Ort", "nvarchar", 160, TRUE, FALSE, FALSE, FALSE),
     Meta("OrtTyp", "smallint", 2, TRUE, FALSE, FALSE, FALSE) >>

CatalogsWithMissing ==
  { [projekt |-> p, adrAdressen |-> AdrColumns(n), adrOrte |-> o] :
      p \in {ProjektColumns, <<>>}, n \in BOOLEAN, o \in {OrtColumns, <<>>} }

\* lines 172-189: the recordset of the catalog query for the table name
QueryColumns(tableName) ==
  CASE tableName = "dbo.Projekt" -> sysColumns.projekt
    [] tableName = "dbo.adrAdressen" -> sysColumns.adrAdressen
    [] OTHER -> sysColumns.adrOrte

CatalogPayloads ==
  { Obj([projnr |-> Str("P1"), adresse |-> Obj(AdrPlain)]),
    Obj([adresse |-> Obj(AdrPlain)]) }

\* getTableColumns: lines 169-197.  adr and proj are the two caches when the
\* call starts; the result carries the caches as the call leaves them and
\* the table names it queried the catalog for.
getTableColumns(adr, proj, tableName) ==
  Bind(IF tableName = "dbo.adrAdressen" THEN adr ELSE proj, LAMBDA cache :
    IF cache /= None
      THEN [ok |-> TRUE, val |-> cache[1], adr |-> adr, proj |-> proj, queried |-> <<>>]
      ELSE [ok |-> TRUE, val |-> QueryColumns(tableName),
            adr |-> IF tableName = "dbo.adrAdressen" THEN Some(QueryColumns(tableName)) ELSE adr,
            proj |-> IF tableName = "dbo.Projekt" THEN Some(QueryColumns(tableName)) ELSE proj,
            queried |-> <<tableName>>])

\* one call of getTableColumns on its own
CallGetTableColumns ==
  /\ Len(ret) < MaxLookups
  /\ \E tableName \in TableNames :
       \E g \in {getTableColumns(adrAdressenColumnsCache, projektColumnsCache, tableName)} :
         /\ ret' = Append(ret, [table |-> tableName, ok |-> g.ok, val |-> g.val])
         /\ adrAdressenColumnsCache' = g.adr
         /\ projektColumnsCache' = g.proj
         /\ catalogLog' = catalogLog \o g.queried
  /\ UNCHANGED <<call, trx, workflowVars, queueVars, poolPromise, subscriberVars, cloneVars>>

\* handleQueueItem lines 509-523 around insertProjektDirect, whose lines
\* 384-385 fetch the metadata of both tables before anything else
HandleOverCache ==
  /\ txCount < MaxTx
  /\ \E payloadV \in CatalogPayloads :
       \E gp \in {getTableColumns(adrAdressenColumnsCache, projektColumnsCache, "dbo.Projekt")} :
       \E ga \in {getTableColumns(gp.adr, gp.proj, "dbo.adrAdressen")} :
       \E r \in {insertProjektDirect(mssqlDb, [projekt |-> gp.val, adrAdressen |-> ga.val], payloadV)} :
         /\ adrAdressenColumnsCache' = ga.adr
         /\ projektColumnsCache' = ga.proj
         /\ catalogLog' = catalogLog \o gp.queried \o ga.queried
         /\ mssqlDb' = IF r.status = "error" THEN mssqlDb ELSE Committed(r.db)
         /\ lastRun' = RunRecord(payloadV, r, IF r.status = "error" THEN mssqlDb ELSE Committed(r.db))
         /\ insertedBy' = IF r.status = "inserted" THEN insertedBy \cup {payloadV} ELSE insertedBy
  /\ txCount' = txCount + 1
  /\ UNCHANGED <<strategy, sysColumns, TEMPLATE_PROJNR, queueVars, poolPromise, subscriberVars, cloneVars,
                 call, ret, trx>>

InitCatalog ==
  /\ strategy = "direct"
  /\ sysColumns \in CatalogsWithMissing
  /\ TEMPLATE_PROJNR = Null
  /\ mssqlDb = EmptyDb
  /\ txCount = 0 /\ lastRun = NoRun /\ insertedBy = {}
  /\ poolPromise = "resolved"
  /\ QueueIdle /\ SubscriberIdle /\ CloneIdle /\ AuxIdle

NextCatalog ==
  \/ CallGetTableColumns
  \/ HandleOverCache

SpecCatalog == InitCatalog /\ [][NextCatalog]_vars

(***************************************************************************)
(* Properties of the insert workflow and of the queue consumer             *)
(***************************************************************************)
\* C1: a payload whose run returned 'inserted', when run again, returns 'exists'
\* and leaves dbo.Projekt as it was: one row for the project number, unchanged.
C1_RerunReturnsExists ==
  lastRun.rerun => (lastRun.status = "exists" /\ lastRun.after.projekt = lastRun.before.projekt)

\* C2: a run that returns 'exists' commits a transaction without any new
\* Project, Address or Location row.
C2_ExistsInsertsNothing ==
  lastRun.status = "exists" => lastRun.after = lastRun.before

\* C10: the worker never writes 'processing' over a stored status of done or
\* error, and a 'processing' write carries the stored attempt_count plus one.
C10_StatusOrder ==
  [][\A id \in Ids :
       /\ store[id].status \in {"done", "error"} => store'[id].status /= "processing"
       /\ (store'[id].status = "processing" /\ store[id].status /= "processing")
            => store'[id].attempt_count = store[id].attempt_count + 1]_vars

(***************************************************************************)
(* Properties of the address roles, Location rows and Address rows         *)
(***************************************************************************)
\* the rows a run appended to a table, and the table keeping its old rows
NewRows(tab) == SubSeq(lastRun.after[tab], Len(lastRun.before[tab]) + 1, Len(lastRun.after[tab]))
KeepsRows(tab) ==
  /\ Len(lastRun.before[tab]) <= Len(lastRun.after[tab])
  /\ SubSeq(lastRun.after[tab], 1, Len(lastRun.before[tab])) = lastRun.before[tab]
InsertedProjekt == lastRun.after.projekt[Len(lastRun.after.projekt)]

\* an id of the form ..._TAG followed by its sequence number
HasRoleSuffix(id, tag) ==
  LET n == Len(TrailingDigits(id)) IN
    /\ n > 0 /\ Len(id) - n > Len(tag)
    /\ SubSeq(id, Len(id) - n - Len(tag), Len(id) - n) = "_" \o tag

\* the role's sub-object is absent, has no sameAsAdresse key, or says true
Inherits(payloadV, role) ==
  ~(IsObj(Get(payloadV.v, role))
      /\ SameValue(Get(Get(payloadV.v, role).v, "sameAsAdresse"), Bool(FALSE)))

ExplicitId(payloadV) ==
  IF IsObj(payloadV) /\ IsObj(Get(payloadV.v, "adresse"))
    THEN Get(Get(payloadV.v, "adresse").v, "adrNrGes") ELSE Null

\* the payload of C15 meets a database without its project, Location and address
C15_Case ==
  /\ strategy = "direct" /\ lastRun.payload = PayloadSameAs
  /\ ~ProjektExists(lastRun.before, Str("P1"))
  /\ OrtHits(lastRun.before, Str("10115"), Str("Berlin")) = {}
  /\ \A i \in 1..Len(lastRun.before.adrAdressen) : ~StartsWith(AdrIds(lastRun.before)[i], "ACME_PROJADR")

\* C15: a payload with a project number, a primary address without id and both
\* other roles {sameAsAdresse: true}, run by the direct-insert workflow on a
\* database without that project, Location and address, returns 'inserted'
\* having created one Location row for (plz, ort), one Address row whose
\* generated id carries the role suffix, and one Project row whose ProjAdr,
\* RechAdr and BauHrAdr all equal that id.
C15_SameAsInsertsOneAddress ==
  C15_Case =>
    /\ lastRun.status = "inserted"
    /\ KeepsRows("adrOrte") /\ KeepsRows("adrAdressen") /\ KeepsRows("projekt")
    /\ Len(NewRows("adrOrte")) = 1
    /\ SameValue(NewRows("adrOrte")[1]["PLZ"], Str("10115"))
    /\ SameValue(NewRows("adrOrte")[1]["Ort"], Str("Berlin"))
    /\ Len(NewRows("adrAdressen")) = 1
    /\ HasRoleSuffix(Get(NewRows("adrAdressen")[1], "AdrNrGes").v, "PROJADR")
    /\ Len(NewRows("projekt")) = 1
    /\ SameValue(Get(InsertedProjekt, "ProjNr"), Str("P1"))
    /\ \A col \in {"ProjAdr", "RechAdr", "BauHrAdr"} :
         SameValue(Get(InsertedProjekt, col), Get(NewRows("adrAdressen")[1], "AdrNrGes"))

\* C16: in a run that inserted a project, a billing or site role whose
\* sub-object is absent, has no sameAsAdresse key or says true gets the
\* primary role's address key, and when both roles inherit at most one Address
\* row is created.
C16_RolesInheritPrimary ==
  (IsObj(lastRun.payload) /\ lastRun.status = "inserted") =>
    /\ Inherits(lastRun.payload, "rechnungAdresse")
         => SameValue(Get(InsertedProjekt, "RechAdr"), Get(InsertedProjekt, "ProjAdr"))
    /\ Inherits(lastRun.payload, "bauherrAdresse")
         => SameValue(Get(InsertedProjekt, "BauHrAdr"), Get(InsertedProjekt, "ProjAdr"))
    /\ (Inherits(lastRun.payload, "rechnungAdresse") /\ Inherits(lastRun.payload, "bauherrAdresse"))
         => Len(NewRows("adrAdressen")) <= 1

RoleOrder == <<"ensureAdresse:adresse", "ensureAdresse:rechnungAdresse", "ensureAdresse:bauherrAdresse">>
OrtStatements == {"selectOrt", "selectMaxOrtID", "insertOrt"}
\* the calls of ensureAdresse among the first i statements of the run
Calls(i) == SelectSeq(SubSeq(lastRun.log, 1, i), LAMBDA s : StartsWith(s, "ensureAdresse:"))

\* C17: in one transaction ensureAdresse is called for the primary, the billing
\* and the site role in this order; within one call no Location statement
\* follows the Address insert; the Project insert is the last statement and
\* comes after all three calls.
C17_ResolutionOrder ==
  /\ Calls(Len(lastRun.log)) = SubSeq(RoleOrder, 1, Len(Calls(Len(lastRun.log))))
  /\ \A i, j \in 1..Len(lastRun.log) :
       (i < j /\ lastRun.log[i] = "insertAdr" /\ lastRun.log[j] \in OrtStatements)
         => Len(Calls(i)) < Len(Calls(j))
  /\ \A i \in 1..Len(lastRun.log) :
       lastRun.log[i] = "insertProjekt" => (i = Len(lastRun.log) /\ Calls(i) = RoleOrder)

\* a run that inserted a Location and an Address for two roles, then the project
C17_Witness ==
  /\ lastRun.status = "inserted"
  /\ Cardinality({i \in 1..Len(lastRun.log) : lastRun.log[i] = "insertAdr"}) = 2
  /\ Cardinality({i \in 1..Len(lastRun.log) : lastRun.log[i] = "insertOrt"}) = 2

\* C18: no two Location rows share (PLZ, Ort) or OrtID; a run keeps the
\* existing Location rows and every Location row it adds has an OrtID greater
\* than the OrtID of every row before it.
C18_LocationsUnique ==
  /\ \A i, j \in 1..Len(mssqlDb.adrOrte) :
       i /= j => /\ mssqlDb.adrOrte[i]["OrtID"] /= mssqlDb.adrOrte[j]["OrtID"]
                 /\ ~(/\ SameValue(mssqlDb.adrOrte[i]["PLZ"], mssqlDb.adrOrte[j]["PLZ"])
                      /\ SameValue(mssqlDb.adrOrte[i]["Ort"], mssqlDb.adrOrte[j]["Ort"]))
  /\ KeepsRows("adrOrte")
  /\ \A k \in Len(lastRun.before.adrOrte) + 1 .. Len(lastRun.after.adrOrte) :
       \A i \in 1..(k - 1) : lastRun.after.adrOrte[i]["OrtID"].v < lastRun.after.adrOrte[k]["OrtID"].v

\* with two Locations stored, a run created an Address on an existing Location
C18_Witness ==
  /\ Len(lastRun.before.adrOrte) = 2
  /\ Len(NewRows("adrAdressen")) = 1 /\ Len(NewRows("adrOrte")) = 0
  /\ \E i \in 1..Len(lastRun.before.adrOrte) :
       lastRun.before.adrOrte[i]["OrtID"] = Get(NewRows("adrAdressen")[1], "Ort")

\* C19: no two Address rows share an id and a run leaves every existing Address
\* row as it was; a run that inserted a project for a primary address whose
\* explicit id existed stores that id as ProjAdr and adds no Address row with it.
C19_AddressesStable ==
  /\ \A i, j \in 1..Len(mssqlDb.adrAdressen) :
       i /= j => Get(mssqlDb.adrAdressen[i], "AdrNrGes") /= Get(mssqlDb.adrAdressen[j], "AdrNrGes")
  /\ KeepsRows("adrAdressen")
  /\ (lastRun.status = "inserted" /\ AdrExists(lastRun.before, ExplicitId(lastRun.payload)))
       => /\ SameValue(Get(InsertedProjekt, "ProjAdr"), ExplicitId(lastRun.payload))
          /\ \A k \in 1..Len(NewRows("adrAdressen")) :
               ~SameValue(Get(NewRows("adrAdressen")[k], "AdrNrGes"), ExplicitId(lastRun.payload))

\* a project was inserted for the stored address id K1, sent with another name
C19_Witness ==
  /\ lastRun.payload = PayloadMoved /\ lastRun.status = "inserted"
  /\ AdrExists(lastRun.before, Str("K1"))
  /\ \E i \in 1..Len(lastRun.after.adrAdressen) :
       /\ SameValue(Get(lastRun.after.adrAdressen[i], "AdrNrGes"), Str("K1"))
       /\ SameValue(Get(lastRun.after.adrAdressen[i], "Name"), Str("Acme GmbH"))

\* C20: a run whose three roles resolve to one address id that already exists
\* writes no Location row and no Address row, in both workers.
C20_ExistingAddressWritesNothing ==
  (/\ IsObj(lastRun.payload)
   /\ AdrExists(lastRun.before, ExplicitId(lastRun.payload))
   /\ Inherits(lastRun.payload, "rechnungAdresse") /\ Inherits(lastRun.payload, "bauherrAdresse"))
    => /\ lastRun.after.adrOrte = lastRun.before.adrOrte
       /\ lastRun.after.adrAdressen = lastRun.before.adrAdressen
       /\ \A i \in 1..Len(lastRun.log) : lastRun.log[i] \notin {"insertOrt", "insertAdr"}

(***************************************************************************)
(* Properties of the payload checks of the direct-insert workflow          *)
(***************************************************************************)
AddressColumns == <<"ProjAdr", "RechAdr", "BauHrAdr">>
RoleOfColumn == [ProjAdr |-> "adresse", RechAdr |-> "rechnungAdresse", BauHrAdr |-> "bauherrAdresse"]
TagOfColumn == [ProjAdr |-> "PROJADR", RechAdr |-> "RECHADR", BauHrAdr |-> "BAUHRADR"]

\* the project fields of a payload: its projekt sub-object or its root fields
ProjectFields(payloadV) ==
  IF IsObj(Get(payloadV.v, "projekt")) THEN Get(payloadV.v, "projekt").v
  ELSE [k \in DOMAIN payloadV.v \ ProjectReserved |-> payloadV.v[k]]

\* the sub-object the direct worker resolves for the role of an address column
RoleRaw(payloadV, col) ==
  IF col /= "ProjAdr" /\ IsObj(Get(payloadV.v, RoleOfColumn[col]))
       /\ ~SameValue(Get(Get(payloadV.v, RoleOfColumn[col]).v, "sameAsAdresse"), Bool(TRUE))
    THEN Get(payloadV.v, RoleOfColumn[col]).v
    ELSE Get(payloadV.v, "adresse").v

\* the address key of that role: the id the sub-object carries, else the id
\* generated for it on the database the run started from
ResolvedKey(payloadV, col) ==
  IF Has(RoleRaw(payloadV, col), "adrNrGes") THEN Str(ToStr(RoleRaw(payloadV, col)["adrNrGes"]))
  ELSE Str(generateAdrNrGes(lastRun.before, RoleRaw(payloadV, col), TagOfColumn[col]))

\* the run resolved the address of all three roles
AllRolesResolved == Calls(Len(lastRun.log)) = RoleOrder

\* C21: when the project fields supply ProjAdr, RechAdr or BauHrAdr and the
\* three roles were resolved, a supplied value that differs from the key of
\* its role makes the run fail with the mismatch error and dbo.Projekt keeps
\* its rows; a run that inserts the project stores the supplied value.
C21_MismatchFails ==
  (strategy = "direct" /\ IsObj(lastRun.payload) /\ IsObj(Get(lastRun.payload.v, "adresse"))) =>
    \A i \in 1..3 :
      ~Falsy(Get(ProjectFields(lastRun.payload), AddressColumns[i])) =>
        /\ (/\ AllRolesResolved
            /\ ~SameValue(Get(ProjectFields(lastRun.payload), AddressColumns[i]),
                          ResolvedKey(lastRun.payload, AddressColumns[i])))
             => /\ lastRun.status = "error" /\ lastRun.err = "Mismatch"
                /\ lastRun.after.projekt = lastRun.before.projekt
        /\ lastRun.status = "inserted"
             => SameValue(Get(InsertedProjekt, AddressColumns[i]),
                          Get(ProjectFields(lastRun.payload), AddressColumns[i]))

\* the billing key K1 of the payload met the generated key of the billing
\* address after that address had been inserted in the transaction
C21_Witness ==
  /\ strategy = "direct" /\ lastRun.payload = PayloadRechAdr
  /\ lastRun.err = "Mismatch" /\ lastRun.field = "RechAdr"
  /\ \E i \in 1..Len(lastRun.log) : lastRun.log[i] = "insertAdr"
  /\ lastRun.after = lastRun.before

\* label.key for the keys of an object that match no column and are not allowed
UnknownIn(o, cols, allowKeys, label) ==
  {label \o "." \o k : k \in {j \in DOMAIN o \ allowKeys : byLower(cols, toLowerCase(j)) = ""}}

\* the unknown keys of a payload, wherever they occur
UnknownFields(payloadV) ==
  UnknownIn(ProjectFields(payloadV), sysColumns.projekt, {}, "projekt")
    \cup UNION {IF IsObj(Get(payloadV.v, role))
                  THEN UnknownIn(Get(payloadV.v, role).v, sysColumns.adrAdressen, AddressExtraKeys, role)
                  ELSE {} : role \in {"adresse", "rechnungAdresse", "bauherrAdresse"}}

\* C22: a payload with a key that matches no column of its table, among the
\* project fields or in one of the three address sub-objects, whatever its
\* sameAsAdresse says, makes the direct-insert run fail with the unknown-field
\* error naming such a key, and the database stays as it was.  Stated for the
\* catalog whose location column is nullable, where no other check fails.
C22_UnknownKeyRejected ==
  (/\ strategy = "direct" /\ IsObj(lastRun.payload) /\ UnknownFields(lastRun.payload) /= {}
   /\ metaByName(sysColumns.adrAdressen, "Ort").is_nullable) =>
    /\ lastRun.status = "error" /\ lastRun.err = "UnknownField"
    /\ lastRun.field \in UnknownFields(lastRun.payload)
    /\ lastRun.after = lastRun.before

\* the declared length of a string column in characters
CharLength(cols, name) ==
  IF CharAt(metaByName(cols, name).data_type, 1) = "n" THEN metaByName(cols, name).max_length \div 2
  ELSE metaByName(cols, name).max_length

\* the payload's project number is longer than the ProjNr column
ProjNrTooLong(payloadV) ==
  /\ IsObj(payloadV) /\ Get(payloadV.v, "projnr").t = "str"
  /\ Len(Get(payloadV.v, "projnr").v) > CharLength(ProjektColumns, "ProjNr")

\* C23: a payload whose project number is longer than the ProjNr column makes
\* the run fail and leaves the database as it was, the direct worker failing
\* with the too-long error; no stored project number is a truncation of it.
C23_TooLongNeverTruncated ==
  ProjNrTooLong(lastRun.payload) =>
    /\ lastRun.status = "error"
    /\ strategy = "direct" => (lastRun.err = "TooLong" /\ lastRun.field = "ProjNr")
    /\ lastRun.after = lastRun.before

\* the insertable NOT NULL columns without default, read from the catalog
RequiredOf(cols) ==
  {cols[i].column_name : i \in {j \in 1..Len(cols) :
     /\ ~cols[j].is_identity /\ ~cols[j].is_computed /\ cols[j].data_type /= "timestamp"
     /\ cols[j].column_name /= "Offline_Sync_Id"
     /\ ~cols[j].is_nullable /\ ~cols[j].default_definition}}

\* the rows the transaction of the last run inserted, committed or not
IssuedRows(tab) == SubSeq(lastRun.trxDb[tab], Len(lastRun.before[tab]) + 1, Len(lastRun.trxDb[tab]))

\* C25: every Project row and every Address row the direct-insert workflow
\* inserts in its transaction has a value in each required column; a run
\* that ends with the missing-field error names a required column or a field
\* the workflow asks for, has issued no Project INSERT and leaves the database
\* as it was; a payload that sends Createdate as null ends with that error
\* for Createdate once its addresses are resolved.
C25_RequiredColumnsPresent ==
  strategy = "direct" =>
    /\ \A i \in 1..Len(IssuedRows("projekt")), c \in RequiredOf(sysColumns.projekt) :
         ~IsNull(Get(IssuedRows("projekt")[i], c))
    /\ \A i \in 1..Len(IssuedRows("adrAdressen")), c \in RequiredOf(sysColumns.adrAdressen) :
         ~IsNull(Get(IssuedRows("adrAdressen")[i], c))
    /\ lastRun.err = "Missing" =>
         /\ lastRun.after = lastRun.before
         /\ \A i \in 1..Len(lastRun.log) : lastRun.log[i] /= "insertProjekt"
    /\ (lastRun.payload = PayloadNullCreatedate /\ AllRolesResolved)
         => (lastRun.err = "Missing" /\ lastRun.field = "projekt.Createdate")

\* the Address row was inserted in the transaction when the check of the
\* required Project columns found Createdate null
C25_Witness ==
  /\ strategy = "direct" /\ lastRun.payload = PayloadNullCreatedate
  /\ lastRun.err = "Missing" /\ lastRun.field = "projekt.Createdate"
  /\ Len(IssuedRows("adrAdressen")) = 1 /\ Len(IssuedRows("projekt")) = 0
  /\ lastRun.after = lastRun.before

\* C26: a direct-insert run never reports the location column Ort of a role
\* as a missing required field when the sub-object resolved for that role
\* supplies plz and ort, also when the catalog declares Ort NOT NULL without
\* default.
C26_LocationColumnFilled ==
  (strategy = "direct" /\ IsObj(lastRun.payload) /\ IsObj(Get(lastRun.payload.v, "adresse"))) =>
    \A i \in 1..3 :
      (/\ ~Falsy(Get(RoleRaw(lastRun.payload, AddressColumns[i]), "plz"))
       /\ ~Falsy(Get(RoleRaw(lastRun.payload, AddressColumns[i]), "ort")))
        => ~(/\ lastRun.err = "Missing"
             /\ lastRun.field = RoleOfColumn[AddressColumns[i]] \o ".Ort")

\* the root-level keys of a payload that are project fields
RootFields(payloadV) == DOMAIN payloadV.v \ ProjectReserved

\* C28: a payload with a projekt sub-object and a root-level project field
\* makes the direct-insert run fail with the ambiguity error before it issues
\* a statement; a run that inserts a project for a payload with one of the
\* two shapes stores the project number of that shape.
C28_EitherShapeNotBoth ==
  (strategy = "direct" /\ IsObj(lastRun.payload)) =>
    /\ (IsObj(Get(lastRun.payload.v, "projekt")) /\ RootFields(lastRun.payload) /= {})
         => /\ lastRun.status = "error" /\ lastRun.err = "AmbiguousPayload"
            /\ lastRun.log = <<>> /\ lastRun.trxDb = lastRun.before
            /\ lastRun.after = lastRun.before
    /\ (/\ lastRun.status = "inserted"
        /\ ~(IsObj(Get(lastRun.payload.v, "projekt")) /\ RootFields(lastRun.payload) /= {}))
         => SameValue(Get(InsertedProjekt, "ProjNr"),
                      Str(ToStr(Get(ProjectFields(lastRun.payload), "projnr"))))

\* a payload with both shapes was rejected on a database that holds the
\* project inserted from a projekt sub-object
C28_Witness ==
  /\ strategy = "direct" /\ lastRun.payload = PayloadBothShapes
  /\ lastRun.err = "AmbiguousPayload"
  /\ PayloadProjekt \in insertedBy

(***************************************************************************)
(* Properties of the functions called on their own                         *)
(***************************************************************************)
\* C24: normalizeValueForColumn returns null, without raising, for a raw value
\* that is null, undefined or the empty string, whatever the type of the
\* column and whether or not the column is nullable.
C24_EmptyBecomesNull ==
  (call /= <<>> /\ call.fn = "normalizeValueForColumn" /\ call.value \in {Null, Str("")}) =>
    \A i \in 1..Len(ret) : ret[i] = Ok(Null)

\* an identity, computed or rowversion column, or the reserved column
NotWritableColumn(col) ==
  col.is_identity \/ col.is_computed \/ col.data_type = "timestamp" \/ col.column_name = "Offline_Sync_Id"

\* the columns of that kind which the keys of raw resolve to
NotWritableOf(raw, cols) ==
  {cols[i].column_name : i \in {j \in 1..Len(cols) :
     /\ NotWritableColumn(cols[j])
     /\ \E k \in DOMAIN raw : toLowerCase(k) = toLowerCase(cols[j].column_name)}}

BaseOfCall ==
  LET b == IF buildAdrBase(call.address) = "" THEN "ADRESSE" ELSE buildAdrBase(call.address)
      room == ADR_NR_MAX - Len("_" \o call.typeTag) - 4
  IN SubSeq(b, 1, IF Len(b) < room THEN Len(b) ELSE room)

\* C29: generateAdrNrGes returns an id of at most 24 characters made of a
\* leading part of the base, '_', the role tag and the number n in full,
\* n being 1 + the largest numeric suffix among the existing ids that start
\* with base + '_' + tag, and the id is none of the existing ids.
C29_GeneratedIdFitsAndIsNew ==
  (call /= <<>> /\ call.fn = "generateAdrNrGes") =>
    \A i \in 1..Len(ret) :
      /\ Len(ret[i]) <= ADR_NR_MAX
      /\ \E k \in 0..Len(BaseOfCall) :
           ret[i] = SubSeq(BaseOfCall, 1, k) \o "_" \o call.typeTag
                      \o ToDigits(MaxSuffix(call.ids, BaseOfCall \o "_" \o call.typeTag) + 1)
      /\ \A j \in 1..Len(call.ids) : call.ids[j] /= ret[i]

(***************************************************************************)
(* Property of two workers resolving addresses at the same time            *)
(***************************************************************************)
\* the worker holds a generated address id it has not inserted or found
HoldsGeneratedId(w) == trx[w].pc \in {"selectAdr", "selectOrt", "selectMaxOrtID", "insertOrt", "insertAdr"}

\* C30: the ids read by max+1 are not kept apart.  Whenever both workers
\* have read their next OrtID and neither has inserted its Location, they
\* hold the same OrtID or one of them holds an OrtID that a committed row has
\* already; whenever both hold an address id generated for the same display
\* name and neither has inserted its Address, they hold the same id or one
\* of them holds an id that a committed row has already.
C30_MaxPlusOneUnprotected ==
  \A a \in Workers, b \in Workers :
    /\ (a /= b /\ trx[a].pc = "insertOrt" /\ trx[b].pc = "insertOrt")
         => \/ trx[a].nextId = trx[b].nextId
            \/ \E w \in {a, b}, i \in 1..Len(mssqlDb.adrOrte) :
                 mssqlDb.adrOrte[i]["OrtID"] = Num(trx[w].nextId)
    /\ (/\ a /= b /\ HoldsGeneratedId(a) /\ HoldsGeneratedId(b)
        /\ trx[a].address.name = trx[b].address.name
        /\ trx[a].adrRows = <<>> /\ trx[b].adrRows = <<>>)
         => \/ trx[a].adrNrGes = trx[b].adrNrGes
            \/ \E w \in {a, b} : AdrExists(mssqlDb, Str(trx[w].adrNrGes))

\* both workers are about to insert a Location with the same OrtID, for
\* addresses to which both have given the same generated id
C30_Witness ==
  /\ trx /= <<>>
  /\ trx[1].pc = "insertOrt" /\ trx[2].pc = "insertOrt"
  /\ trx[1].nextId = trx[2].nextId
  /\ trx[1].adrNrGes = trx[2].adrNrGes /\ trx[1].adrNrGes /= ""

(***************************************************************************)
(* Properties of the inserted Project row                                  *)
(***************************************************************************)
DateColumns == {"Createdate", "Editdate", "ProjAnlage", "AuftragsDatum"}

\* the keys of the payload's project fields that name the column
SuppliedKeys(payloadV, col) ==
  {k \in DOMAIN ProjectFields(payloadV) : toLowerCase(k) = toLowerCase(col)}

\* what the claim expects in a date column of the inserted row
ExpectedDate(payloadV, col) ==
  IF SuppliedKeys(payloadV, col) = {} THEN NowDate
  ELSE ProjectFields(payloadV)[CHOOSE k \in SuppliedKeys(payloadV, col) : TRUE]

\* C31: a run that returns 'inserted' has added exactly one Project row, the
\* row has the project number of the payload, and each of Createdate,
\* Editdate, ProjAnlage and AuftragsDatum holds the payload's value when the
\* payload supplies the column and the current time when it does not.
C31_InsertedRowHasTimestamps ==
  lastRun.status = "inserted" =>
    /\ Len(lastRun.after.projekt) = Len(lastRun.before.projekt) + 1
    /\ KeepsRows("projekt")
    /\ SameValue(InsertedProjekt["ProjNr"], Get(ProjectFields(lastRun.payload), "projnr"))
    /\ \A col \in DateColumns :
         Get(InsertedProjekt, col) = ExpectedDate(lastRun.payload, col)

(***************************************************************************)
(* Properties of the catalog cache                                         *)
(***************************************************************************)
\* the number of catalog queries made for the table name
QueryCount(tableName) ==
  Cardinality({i \in 1..Len(catalogLog) : catalogLog[i] = tableName})

TableMissing(tableName) == QueryColumns(tableName) = <<>>

\* C33: a call of getTableColumns for a table that does not exist fails,
\* nothing is cached for that table, and a workflow run on a database
\* without dbo.Projekt ends with the catalog error.
C33_MissingTableFails ==
  /\ \A i \in 1..Len(ret) : TableMissing(ret[i].table) => ~ret[i].ok
  /\ TableMissing("dbo.Projekt") => projektColumnsCache = None
  /\ (TableMissing("dbo.Projekt") /\ lastRun.status /= "none") =>
       (lastRun.status = "error" /\ lastRun.err = "CatalogError")

(***************************************************************************)
(* Properties of the queue consumer under failures                         *)
(***************************************************************************)
Handling == hpc \in {"writeProcessing", "transaction", "writeTerminal"}

\* C11: no failure while an item is handled halts the consumer: the worker
\* keeps running, and whenever processQueue is not running (processing is
\* false) no item is left waiting in the in-memory queue.
C11_ConsumerNeverHalts ==
  /\ hpc /= "exited"
  /\ ~processing => queue = <<>>

\* C12: at most one queue item is being handled: processing is set exactly
\* while handleQueueItem runs, and while it runs the handled item is replaced
\* only by the step that ends its handling.
C12_OneItemAtATime ==
  /\ [](Handling <=> processing)
  /\ [][(Handling /\ Handling' /\ item' /= item) => hpc = "writeTerminal"]_vars

\* an item is in its transaction while another one waits in the queue
C12_Witness == hpc = "transaction" /\ poolPromise = "resolved" /\ queue /= <<>>

\* C13: when begin, the workflow or commit threw, a rollback was attempted and
\* the terminal write stores status 'error' with the message of that error cut
\* to 2000 characters, whether or not the rollback failed.
C13_ErrorTextIsOriginal ==
  [][(hpc = "writeTerminal" /\ hpc' /= "writeTerminal" /\ curResult.status = "error")
       => /\ curResult.rollback \in {"ok", "failed"}
          /\ store'[item.id].status = "error"
          /\ store'[item.id].error = truncateString(curResult.message, 2000)
          /\ Len(store'[item.id].error.v) <= 2000]_vars

\* a commit failed with an over-long message, the rollback failed too, and the
\* item now carries the first 2000 characters of the commit's message
C13_Witness ==
  \E id \in Ids :
    /\ store[id].status = "error"
    /\ lastRun.status = "error" /\ Len(lastRun.log) > 0 /\ lastRun.rollback = "failed"
    /\ store[id].error = Str(SubSeq(LongText, 1, 2000))
    /\ store[id].error /= CommitError

\* the id is in the in-memory queue or is the one being handled
Held(id) ==
  \/ \E i \in 1..Len(queue) : queue[i].id = id
  \/ Handling /\ item.id = id

\* C35: every row accepted by enqueue is eventually handled to its end: its
\* item carries a terminal status, done or error, and its id has left
\* enqueuedIds, so that a re-queue of the item is accepted again.
C35_AcceptedRowsFinish ==
  \A id \in Ids :
    (id \in enqueuedIds) ~> (id \notin enqueuedIds /\ store[id].status \in {"done", "error"})

\* C36: enqueuedIds is the set of the ids waiting in the queue plus the id of
\* the item being handled, and no id is in the queue twice.
C36_EnqueuedIdsExact ==
  /\ enqueuedIds = {id \in Ids : Held(id)}
  /\ \A i, j \in 1..Len(queue) : queue[i].id = queue[j].id => i = j
  /\ \A i \in 1..Len(queue) : ~(Handling /\ item.id = queue[i].id)

\* the Location, Address and Project rows of a database
TablesOf(db) == [projekt |-> db.projekt, adrAdressen |-> db.adrAdressen, adrOrte |-> db.adrOrte]

\* C37: when the handling of an item ends with status 'error' and the
\* rollback succeeded, the database holds exactly the rows it held before the
\* transaction: none of the rows written while handling the item; when it
\* ends with status 'done', the database holds every row the transaction
\* wrote, and nothing else has changed.
C37_HandlingIsAtomic ==
  [][(hpc = "writeTerminal" /\ hpc' /= "writeTerminal") =>
       /\ store'[item.id].status \in {"done", "error"}
       /\ (store'[item.id].status = "error" /\ lastRun.rollback = "ok")
            => TablesOf(mssqlDb') = TablesOf(lastRun.before)
       /\ store'[item.id].status = "done"
            => /\ lastRun.status \in {"inserted", "exists"}
               /\ TablesOf(mssqlDb') = TablesOf(lastRun.trxDb)]_vars

\* an item ended with 'error' after its transaction had written an Address
\* and a Project row, the rollback succeeded and the rows are gone
C37_Witness ==
  /\ hpc = "idle"
  /\ \E id \in Ids : store[id].status = "error"
  /\ lastRun.status = "error" /\ lastRun.rollback = "ok"
  /\ Len(lastRun.trxDb.adrAdressen) > Len(lastRun.before.adrAdressen)
  /\ Len(lastRun.trxDb.projekt) > Len(lastRun.before.projekt)
  /\ TablesOf(mssqlDb) = TablesOf(lastRun.before)

(***************************************************************************)
(* Property of the table subscriber                                        *)
(***************************************************************************)
\* change event n waits in the queue or in the batch in flight
Accepted(n) ==
  \/ \E i \in 1..Len(queue) : queue[i].n = n
  \/ \E i \in 1..Len(batch) : batch[i].n = n

\* C14: every INSERT or UPDATE event that carries a projnr is eventually
\* merged into dbo.Projekt provided no upsert fails, also when it arrived
\* while an earlier batch's upsert was in flight, and without a further event.
C14_EveryEventWritten ==
  \A n \in 1..MaxEvents : (Accepted(n) /\ ~upsertFailed) ~> (n \in written \/ upsertFailed)

====
